---- MODULE Spec2Model ----
(***************************************************************************)
(* A model of the Drive <-> local synchronisation core:                    *)
(*   SyncEngine   (src/src/sync_engine.py)   scanning, diffing, planning   *)
(*   SyncExecutor (src/src/sync_executor.py) executing a plan              *)
(*                                                                         *)
(* Python strings are sequences of one-character strings, so startswith,   *)
(* slicing by length and lstrip('/') are computed as the code computes     *)
(* them.  A modification time is the number of seconds its ISO text        *)
(* denotes.  None and '' (both falsy where the code tests them) are <<>>.  *)
(***************************************************************************)
EXTENDS Integers, Sequences, FiniteSets, TLC

VARIABLES
    sync_folders,         \* config['sync_folders']: ordered <<drive name, local path>> pairs
    conflict_resolution,  \* preferences['conflict_resolution'], or "unset"
    drive_store,          \* per root pair: what get_folder_hierarchy returns
    local_store,          \* per root pair: the local directory tree
    drive_structure,      \* per root pair: scan_drive_structure's result
    local_structure,      \* per root pair: scan_local_structure's result
    sync_plan,            \* create_sync_plan's result
    pc,                   \* where the run is
    direction,            \* execute_plan's direction argument
    stats,                \* SyncExecutor.stats
    utc_offset,           \* seconds the local clock is ahead of UTC
    local_fs_dirs,        \* the local directories that exist, by absolute path
    local_fs_files,       \* the local files that exist: absolute path |-> size, time, hash
    remote_folders,       \* the Drive folders that exist, by path from the top
    remote_files,         \* the Drive files, as <<folder path, name>>, each with its count
    todo,                 \* the items the running loop still has to visit
    log,                  \* every attempt of the run, in order
    dry_run,              \* main's --dry-run argument
    exclusions,           \* preferences['exclusions']: glob patterns
    unreadable,           \* the folders whose listing raises: Drive ids, local paths
    mapped                \* the last call of a path mapper: its argument and result

vars == <<sync_folders, conflict_resolution, drive_store, local_store,
          drive_structure, local_structure, sync_plan, pc, direction,
          stats, utc_offset, local_fs_dirs,
          local_fs_files, remote_folders, remote_files, todo, log,
          dry_run, mapped, exclusions, unreadable>>

(***************************************************************************)
(* Bounds of the model.                                                    *)
(***************************************************************************)
MaxDepth == 2
MaxFolderNames == 2
MaxNodes == 4
MaxFileNames == 1
MaxTimeSteps == 2
MaxFailures == 2
ExecNodes == 3
RootsNodes == 2

(***************************************************************************)
(* Strings.                                                                *)
(***************************************************************************)
Slash == "/"

StartsWith(s, p) == Len(p) <= Len(s) /\ SubSeq(s, 1, Len(p)) = p

EndsWith(s, p) == Len(p) <= Len(s) /\ SubSeq(s, Len(s) - Len(p) + 1, Len(s)) = p

DropFirst(s, n) == SubSeq(s, n + 1, Len(s))

HasSlash(s) == \E i \in 1..Len(s) : s[i] = Slash

RECURSIVE LStripSlash(_)
LStripSlash(s) == IF s # <<>> /\ Head(s) = Slash THEN LStripSlash(Tail(s)) ELSE s

RECURSIVE RStripSlash(_)
RStripSlash(s) ==
    IF s # <<>> /\ s[Len(s)] = Slash THEN RStripSlash(SubSeq(s, 1, Len(s) - 1)) ELSE s

\* The index of the last "/" of s, 0 when it has none.
LastSlash(s) ==
    LET at == {i \in 1..Len(s) : s[i] = Slash}
    IN IF at = {} THEN 0 ELSE CHOOSE i \in at : \A j \in at : j <= i

\* f"{a}/{b}"
SlashJoin(a, b) == a \o <<Slash>> \o b

\* os.path.basename
Basename(p) == DropFirst(p, LastSlash(p))

\* os.path.dirname
Dirname(p) ==
    LET head == SubSeq(p, 1, LastSlash(p))
    IN IF head # <<>> /\ \E i \in 1..Len(head) : head[i] # Slash
       THEN RStripSlash(head) ELSE head

\* os.path.join of two parts
OsPathJoin(a, b) ==
    IF StartsWith(b, <<Slash>>) THEN b
    ELSE IF a = <<>> \/ EndsWith(a, <<Slash>>) THEN a \o b
    ELSE a \o <<Slash>> \o b

\* The components of a path between its slashes, empty ones included.
RECURSIVE SplitSlash(_)
SplitSlash(p) ==
    LET at == {i \in 1..Len(p) : p[i] = Slash}
    IN IF at = {} THEN <<p>>
       ELSE LET i == CHOOSE k \in at : \A j \in at : k <= j
            IN <<SubSeq(p, 1, i - 1)>> \o SplitSlash(DropFirst(p, i))

RECURSIVE JoinSlash(_)
JoinSlash(parts) ==
    IF parts = <<>> THEN <<>>
    ELSE IF Len(parts) = 1 THEN parts[1]
    ELSE parts[1] \o <<Slash>> \o JoinSlash(Tail(parts))

\* posixpath.normpath, on paths whose components are never "." or "..".
OsPathNormpath(p) ==
    LET NonEmpty(c) == c # <<>>
        comps == SelectSeq(SplitSlash(p), NonEmpty)
        lead == IF ~StartsWith(p, <<Slash>>) THEN <<>>
                ELSE IF StartsWith(p, <<Slash, Slash>>) /\ ~StartsWith(p, <<Slash, Slash, Slash>>)
                     THEN <<Slash, Slash>>
                     ELSE <<Slash>>
        body == lead \o JoinSlash(comps)
    IN IF body = <<>> THEN <<".">> ELSE body

(***************************************************************************)
(* Configuration and the two stores.                                       *)
(***************************************************************************)
\* The mime type of a native Google document, and of an ordinary file.
GoogleDocMime == "application/vnd.google-apps.document"
PlainMime == "text/plain"

NoHash == ""

\* The tolerance below which two modification times count as equal.
MtimeTolerance == 60

FolderNameSeq == << <<"A">>, <<"B">>, <<"C">> >>
FileNameSeq == << <<"x">>, <<"y">>, <<"z">> >>

FolderNames == SubSeq(FolderNameSeq, 1, MaxFolderNames)
FileNames == SubSeq(FileNameSeq, 1, MaxFileNames)

Times == {0} \cup {MtimeTolerance + k - 1 : k \in 1..MaxTimeSteps}
Sizes == {10, 11}
Hashes == {"H1", "H2"}

\* One root pair: the Drive folder "D" and the local directory "/h/L".
OnePair == << << <<"D">>, <<Slash, "h", Slash, "L">> >> >>

\* What a store holds for one file, apart from its name.
SmallMetas ==
    { [size |-> 10, md5 |-> "H1", mtime |-> 0],
      [size |-> 10, md5 |-> "H2", mtime |-> MtimeTolerance + 1] }

RichMetas == [size : Sizes, md5 : Hashes \cup {NoHash}, mtime : Times]

DriveFile(n, m, mime) ==
    [name |-> n, mimeType |-> mime, size |-> m.size, modifiedTime |-> m.mtime,
     md5Checksum |-> m.md5]

LocalFile(n, m) ==
    [name |-> n, st_size |-> m.size, st_mtime |-> m.mtime, digest |-> m.md5]

GoogleDocMeta == [size |-> 0, md5 |-> NoHash, mtime |-> 0]

DriveFilesNamed(n, metas) ==
    {DriveFile(n, m, PlainMime) : m \in metas} \cup {DriveFile(n, GoogleDocMeta, GoogleDocMime)}

LocalFilesNamed(n, metas) == {LocalFile(n, m) : m \in metas}

\* Every list that holds, for each name of names in order, nothing or one
\* of the entries options[name] offers.
RECURSIVE Listings(_, _)
Listings(names, options) ==
    IF names = <<>> THEN {<<>>}
    ELSE LET rest == Listings(Tail(names), options)
         IN rest \cup {<<e>> \o r : e \in options[Head(names)], r \in rest}

Range(s) == {s[i] : i \in 1..Len(s)}

\* The number of files and folders below a folder.
RECURSIVE NodeCount(_)
RECURSIVE NodeCountAll(_)
NodeCount(folder) == Len(folder.files) + NodeCountAll(folder.children)
NodeCountAll(folders) ==
    IF folders = <<>> THEN 0
    ELSE 1 + NodeCount(Head(folders)) + NodeCountAll(Tail(folders))

\* The Drive folders of name n, at most depth levels deep, that hold at
\* most budget files and folders.
RECURSIVE DriveFolders(_, _, _, _)
DriveFolders(n, depth, budget, metas) ==
    LET filesOf == [f \in Range(FileNames) |-> DriveFilesNamed(f, metas)]
        childrenOf == [c \in Range(FolderNames) |->
                         DriveFolders(c, depth - 1, budget - 1, metas)]
        all == [name : {n},
                files : Listings(FileNames, filesOf),
                children : IF depth = 0 \/ budget = 0 THEN {<<>>}
                           ELSE Listings(FolderNames, childrenOf)]
    IN {folder \in all : NodeCount(folder) <= budget}

RECURSIVE LocalFolders(_, _, _, _)
LocalFolders(n, depth, budget, metas) ==
    LET filesOf == [f \in Range(FileNames) |-> LocalFilesNamed(f, metas)]
        childrenOf == [c \in Range(FolderNames) |->
                         LocalFolders(c, depth - 1, budget - 1, metas)]
        all == [name : {n},
                files : Listings(FileNames, filesOf),
                children : IF depth = 0 \/ budget = 0 THEN {<<>>}
                           ELSE Listings(FolderNames, childrenOf)]
    IN {folder \in all : NodeCount(folder) <= budget}

\* A folder that does not exist (the scanners return None for it).
None == [none |-> TRUE]

(***************************************************************************)
(* SyncEngine: scanning.                                                   *)
(***************************************************************************)
google_mime_types ==
    { "application/vnd.google-apps.document", "application/vnd.google-apps.spreadsheet",
      "application/vnd.google-apps.presentation", "application/vnd.google-apps.drawing",
      "application/vnd.google-apps.form", "application/vnd.google-apps.script" }

\* A client that takes no MIME type for a Google one.
NoGoogleDoc(mime_type) == FALSE

is_google_doc(mime_type) == mime_type \in google_mime_types

FilesOf(folder) == IF "files" \in DOMAIN folder THEN folder.files ELSE <<>>

ChildrenOf(folder) == IF "children" \in DOMAIN folder THEN folder.children ELSE <<>>

\* _enhance_drive_metadata on an item whose path is already known.
RECURSIVE EnhanceDriveMetadata(_, _)
EnhanceDriveMetadata(item, path) ==
    [id |-> item.id,
     name |-> item.name,
     path |-> path,
     files |-> [i \in 1..Len(FilesOf(item)) |->
                  LET file == FilesOf(item)[i]
                  IN [id |-> file.id,
                      name |-> file.name,
                      mimeType |-> file.mimeType,
                      size |-> file.size,
                      modifiedTime |-> file.modifiedTime,
                      parent_path |-> path,
                      full_path |-> SlashJoin(path, file.name),
                      is_google_doc |-> is_google_doc(file.mimeType),
                      md5 |-> file.md5Checksum]],
     children |-> [i \in 1..Len(ChildrenOf(item)) |->
                     LET child == ChildrenOf(item)[i]
                     IN EnhanceDriveMetadata(child, SlashJoin(path, child.name))]]

\* The ids of a Drive folder and of the folders below it.
RECURSIVE FolderIds(_)
FolderIds(folder) ==
    {folder.id} \cup UNION {FolderIds(c) : c \in Range(ChildrenOf(folder))}

\* get_folder_hierarchy re-raises what get_file_metadata or list_files
\* raised for a folder, at every level up to scan_drive_structure.
HierarchyRaises(store) == store # None /\ FolderIds(store) \cap unreadable # {}

\* scan_drive_structure: the folder is looked up, then walked and enhanced.
ScanDriveStructure(store) ==
    IF store = None THEN None ELSE EnhanceDriveMetadata(store, store.name)

\* fnmatch.fnmatch: '*' stands for any characters, '?' for one.
RECURSIVE Fnmatch(_, _)
Fnmatch(name, pattern) ==
    IF pattern = <<>> THEN name = <<>>
    ELSE IF Head(pattern) = "*"
    THEN Fnmatch(name, Tail(pattern)) \/ (name # <<>> /\ Fnmatch(Tail(name), pattern))
    ELSE /\ name # <<>>
         /\ Head(pattern) = "?" \/ Head(pattern) = Head(name)
         /\ Fnmatch(Tail(name), Tail(pattern))

\* _should_exclude
ShouldExclude(item_name) == \E pattern \in exclusions : Fnmatch(item_name, pattern)

\* _scan_local_folder: the files and the children of one directory; when
\* os.listdir raises, the except clause leaves the folder without any.
RECURSIVE ScanLocalFolder(_, _, _)
ScanLocalFolder(dir, path, offset) ==
    LET Kept(item) == ~ShouldExclude(item.name)
        listed == path \notin unreadable
        files == IF listed THEN SelectSeq(dir.files, Kept) ELSE <<>>
        children == IF listed THEN SelectSeq(dir.children, Kept) ELSE <<>>
    IN [files |-> [i \in 1..Len(files) |->
                     [name |-> files[i].name,
                      parent_path |-> path,
                      full_path |-> SlashJoin(path, files[i].name),
                      mimeType |-> PlainMime,
                      size |-> files[i].st_size,
                      modifiedTime |-> files[i].st_mtime + offset,
                      md5 |-> files[i].digest]],
        children |-> [i \in 1..Len(children) |->
                        LET child_path == SlashJoin(path, children[i].name)
                        IN [name |-> children[i].name, path |-> child_path]
                           @@ ScanLocalFolder(children[i], child_path, offset)]]

\* scan_local_structure
ScanLocalStructure(local_path, store, offset) ==
    IF store = None THEN None
    ELSE LET base_name == Basename(local_path)
         IN [name |-> base_name, path |-> base_name]
            @@ ScanLocalFolder(store, base_name, offset)

(***************************************************************************)
(* SyncEngine: comparing.                                                  *)
(***************************************************************************)
HasName(items, n) == \E i \in 1..Len(items) : items[i].name = n

\* The value a dict built as {item['name']: item for item in items} holds
\* under n: the last item of that name.
Named(items, n) ==
    LET at == {i \in 1..Len(items) : items[i].name = n}
    IN items[CHOOSE i \in at : \A j \in at : j <= i]

\* The values of that dict in the order Python iterates it: each name at
\* the place of its first occurrence.
RECURSIVE DictValuesFrom(_, _)
DictValuesFrom(items, i) ==
    IF i > Len(items) THEN <<>>
    ELSE (IF \E j \in 1..(i - 1) : items[j].name = items[i].name
          THEN <<>> ELSE <<Named(items, items[i].name)>>)
         \o DictValuesFrom(items, i + 1)

DictValues(items) == DictValuesFrom(items, 1)

Abs(x) == IF x < 0 THEN -x ELSE x

EmptyPlan ==
    [to_download |-> <<>>, to_upload |-> <<>>, to_delete_local |-> <<>>,
     to_delete_remote |-> <<>>, conflicts |-> <<>>, drive_only_folders |-> <<>>,
     local_only_folders |-> <<>>]

\* _are_files_different with the size compared before the hashes.
AreFilesDifferentSizeFirst(drive_file, local_file) ==
    IF drive_file.size # local_file.size THEN TRUE
    ELSE IF drive_file.md5 # NoHash /\ local_file.md5 # NoHash
    THEN drive_file.md5 # local_file.md5
    ELSE Abs(drive_file.modifiedTime - local_file.modifiedTime) > MtimeTolerance

\* _are_files_different with time_diff >= 60 for time_diff > 60.
AreFilesDifferentGe(drive_file, local_file) ==
    IF drive_file.md5 # NoHash /\ local_file.md5 # NoHash
    THEN drive_file.md5 # local_file.md5
    ELSE IF drive_file.size # local_file.size THEN TRUE
    ELSE Abs(drive_file.modifiedTime - local_file.modifiedTime) >= MtimeTolerance

\* _are_files_different without its first test: the hashes are not looked at.
AreFilesDifferentSizeThenTime(drive_file, local_file) ==
    IF drive_file.size # local_file.size THEN TRUE
    ELSE Abs(drive_file.modifiedTime - local_file.modifiedTime) > MtimeTolerance

\* _are_files_different
AreFilesDifferent(drive_file, local_file) ==
    IF drive_file.md5 # NoHash /\ local_file.md5 # NoHash
    THEN drive_file.md5 # local_file.md5
    ELSE IF drive_file.size # local_file.size THEN TRUE
    ELSE Abs(drive_file.modifiedTime - local_file.modifiedTime) > MtimeTolerance

\* The loop body with the download not closed by an else: a newer remote
\* file under policy drive is listed for download and as a conflict.
CompareCommonFileBoth(drive_file, local_file, plan, policy) ==
    IF drive_file.is_google_doc THEN plan
    ELSE IF ~AreFilesDifferent(drive_file, local_file) THEN plan
    ELSE IF drive_file.modifiedTime > local_file.modifiedTime
    THEN IF policy = "drive"
         THEN [plan EXCEPT !.to_download = Append(@, drive_file),
                           !.conflicts = Append(@, <<drive_file, local_file>>)]
         ELSE [plan EXCEPT !.conflicts = Append(@, <<drive_file, local_file>>)]
    ELSE IF policy = "local"
         THEN [plan EXCEPT !.to_upload = Append(@, local_file)]
         ELSE [plan EXCEPT !.conflicts = Append(@, <<drive_file, local_file>>)]

\* The loop body with the two policy tests exchanged.
CompareCommonFileSwapped(drive_file, local_file, plan, policy) ==
    IF drive_file.is_google_doc THEN plan
    ELSE IF ~AreFilesDifferent(drive_file, local_file) THEN plan
    ELSE IF drive_file.modifiedTime > local_file.modifiedTime
    THEN IF policy = "local"
         THEN [plan EXCEPT !.to_download = Append(@, drive_file)]
         ELSE [plan EXCEPT !.conflicts = Append(@, <<drive_file, local_file>>)]
    ELSE IF policy = "drive"
         THEN [plan EXCEPT !.to_upload = Append(@, local_file)]
         ELSE [plan EXCEPT !.conflicts = Append(@, <<drive_file, local_file>>)]

\* The loop body with drive_time >= local_time for drive_time > local_time.
CompareCommonFileGe(drive_file, local_file, plan, policy) ==
    IF drive_file.is_google_doc THEN plan
    ELSE IF ~AreFilesDifferent(drive_file, local_file) THEN plan
    ELSE IF drive_file.modifiedTime >= local_file.modifiedTime
    THEN IF policy = "drive"
         THEN [plan EXCEPT !.to_download = Append(@, drive_file)]
         ELSE [plan EXCEPT !.conflicts = Append(@, <<drive_file, local_file>>)]
    ELSE IF policy = "local"
         THEN [plan EXCEPT !.to_upload = Append(@, local_file)]
         ELSE [plan EXCEPT !.conflicts = Append(@, <<drive_file, local_file>>)]

\* The body of _compare_files' loop over the common names, for one pair.
CompareCommonFile(drive_file, local_file, plan, policy) ==
    IF drive_file.is_google_doc THEN plan
    ELSE IF ~AreFilesDifferent(drive_file, local_file) THEN plan
    ELSE IF drive_file.modifiedTime > local_file.modifiedTime
    THEN IF policy = "drive"
         THEN [plan EXCEPT !.to_download = Append(@, drive_file)]
         ELSE [plan EXCEPT !.conflicts = Append(@, <<drive_file, local_file>>)]
    ELSE IF policy = "local"
         THEN [plan EXCEPT !.to_upload = Append(@, local_file)]
         ELSE [plan EXCEPT !.conflicts = Append(@, <<drive_file, local_file>>)]

RECURSIVE CompareCommonFiles(_, _, _, _)
CompareCommonFiles(common, local_files, plan, policy) ==
    IF common = <<>> THEN plan
    ELSE CompareCommonFiles(Tail(common), local_files,
             CompareCommonFile(Head(common), Named(local_files, Head(common).name),
                               plan, policy),
             policy)

\* _compare_files
CompareFiles(drive_folder, local_folder, plan, policy) ==
    LET drive_files == DictValues(FilesOf(drive_folder))
        local_files == DictValues(FilesOf(local_folder))
        OnlyDrive(file) == ~HasName(local_files, file.name) /\ ~file.is_google_doc
        OnlyLocal(file) == ~HasName(drive_files, file.name)
        Common(file) == HasName(local_files, file.name)
        plan1 == [plan EXCEPT !.to_download = @ \o SelectSeq(drive_files, OnlyDrive)]
        plan2 == [plan1 EXCEPT !.to_upload = @ \o SelectSeq(local_files, OnlyLocal)]
    IN CompareCommonFiles(SelectSeq(drive_files, Common), local_files, plan2, policy)

RECURSIVE CompareFolders(_, _, _, _)
RECURSIVE CompareCommonFolders(_, _, _, _)

\* The last loop of _compare_folders: the folders on both sides, one by one.
CompareCommonFolders(common, local_children, plan, policy) ==
    IF common = <<>> THEN plan
    ELSE CompareCommonFolders(Tail(common), local_children,
             CompareFolders(Head(common), Named(local_children, Head(common).name),
                            plan, policy),
             policy)

\* _compare_folders with the children keyed by path instead of name.
CompareFoldersByPath(drive_folder, local_folder, plan, policy) ==
    LET plan1 == CompareFiles(drive_folder, local_folder, plan, policy)
        drive_children == DictValues(ChildrenOf(drive_folder))
        local_children == DictValues(ChildrenOf(local_folder))
        HasPath(items, path) == \E i \in 1..Len(items) : items[i].path = path
        OnlyDrive(folder) == ~HasPath(local_children, folder.path)
        OnlyLocal(folder) == ~HasPath(drive_children, folder.path)
        Common(folder) == HasPath(local_children, folder.path)
        plan2 == [plan1 EXCEPT
                    !.drive_only_folders = @ \o SelectSeq(drive_children, OnlyDrive)]
        plan3 == [plan2 EXCEPT
                    !.local_only_folders = @ \o SelectSeq(local_children, OnlyLocal)]
    IN CompareCommonFolders(SelectSeq(drive_children, Common), local_children,
                            plan3, policy)

\* _compare_folders without its last loop: the common folders are not
\* descended into.
CompareFoldersNoRecursion(drive_folder, local_folder, plan, policy) ==
    LET plan1 == CompareFiles(drive_folder, local_folder, plan, policy)
        drive_children == DictValues(ChildrenOf(drive_folder))
        local_children == DictValues(ChildrenOf(local_folder))
        OnlyDrive(folder) == ~HasName(local_children, folder.name)
        OnlyLocal(folder) == ~HasName(drive_children, folder.name)
        plan2 == [plan1 EXCEPT
                    !.drive_only_folders = @ \o SelectSeq(drive_children, OnlyDrive)]
    IN [plan2 EXCEPT
          !.local_only_folders = @ \o SelectSeq(local_children, OnlyLocal)]

\* _compare_folders
CompareFolders(drive_folder, local_folder, plan, policy) ==
    LET plan1 == CompareFiles(drive_folder, local_folder, plan, policy)
        drive_children == DictValues(ChildrenOf(drive_folder))
        local_children == DictValues(ChildrenOf(local_folder))
        OnlyDrive(folder) == ~HasName(local_children, folder.name)
        OnlyLocal(folder) == ~HasName(drive_children, folder.name)
        Common(folder) == HasName(local_children, folder.name)
        plan2 == [plan1 EXCEPT
                    !.drive_only_folders = @ \o SelectSeq(drive_children, OnlyDrive)]
        plan3 == [plan2 EXCEPT
                    !.local_only_folders = @ \o SelectSeq(local_children, OnlyLocal)]
    IN CompareCommonFolders(SelectSeq(drive_children, Common), local_children,
                            plan3, policy)

\* preferences.get('conflict_resolution', default)
Preference(default) ==
    IF conflict_resolution = "unset" THEN default ELSE conflict_resolution

\* compare_structures
CompareStructures(drive, local) ==
    IF drive = None \/ local = None THEN None
    ELSE CompareFolders(drive, local, EmptyPlan, Preference("drive"))

(***************************************************************************)
(* SyncEngine: create_sync_plan.                                           *)
(***************************************************************************)
NumPairs == Len(sync_folders)

\* The local structure create_sync_plan compares: an empty one when the
\* local directory does not exist.
LocalStructureFrom(local_path, store) ==
    LET scanned == ScanLocalStructure(local_path, store, utc_offset)
    IN IF scanned = None
       THEN [name |-> Basename(local_path), path |-> Basename(local_path),
             children |-> <<>>, files |-> <<>>]
       ELSE scanned

LocalStructureOf(i) == LocalStructureFrom(sync_folders[i][2], local_store[i])

\* The round with a Drive root that was not found taken for an empty folder.
PairPlanEmptyDrive(i, local) ==
    LET drive_folder_name == sync_folders[i][1]
        local_path == sync_folders[i][2]
        scanned == ScanDriveStructure(drive_store[i])
        drive == IF scanned = None
                 THEN [id |-> <<>>, name |-> Basename(drive_folder_name),
                       path |-> Basename(drive_folder_name),
                       children |-> <<>>, files |-> <<>>]
                 ELSE scanned
        folder_plan == CompareStructures(drive, local)
        WithLocalPath(item) ==
            [local_path |->
                OsPathJoin(local_path,
                           LStripSlash(DropFirst(item.full_path, Len(drive.path))))]
            @@ item
        WithDriveParent(item) == [drive_parent |-> drive_folder_name] @@ item
    IN [folder_plan EXCEPT
          !.to_download = [k \in 1..Len(@) |-> WithLocalPath(@[k])],
          !.to_upload = [k \in 1..Len(@) |-> WithDriveParent(@[k])]]

\* One round of create_sync_plan's loop: the plan of root pair i, its
\* downloads and uploads annotated.
PairPlan(i, local) ==
    LET drive_folder_name == sync_folders[i][1]
        local_path == sync_folders[i][2]
        drive == ScanDriveStructure(drive_store[i])
        folder_plan == CompareStructures(drive, local)
        WithLocalPath(item) ==
            [local_path |->
                OsPathJoin(local_path,
                           LStripSlash(DropFirst(item.full_path, Len(drive.path))))]
            @@ item
        WithDriveParent(item) == [drive_parent |-> drive_folder_name] @@ item
    IN IF drive = None THEN EmptyPlan
       ELSE [folder_plan EXCEPT
               !.to_download = [k \in 1..Len(@) |-> WithLocalPath(@[k])],
               !.to_upload = [k \in 1..Len(@) |-> WithDriveParent(@[k])]]

FolderPlan(i) == PairPlan(i, LocalStructureOf(i))

\* The loop with each pair's plan put in front of what is there.
RECURSIVE OverallPlanReversed(_, _)
OverallPlanReversed(i, overall_plan) ==
    IF i > NumPairs THEN overall_plan
    ELSE OverallPlanReversed(i + 1,
             [key \in DOMAIN overall_plan |-> FolderPlan(i)[key] \o overall_plan[key]])

RECURSIVE OverallPlan(_, _)
OverallPlan(i, overall_plan) ==
    IF i > NumPairs THEN overall_plan
    ELSE OverallPlan(i + 1,
             [key \in DOMAIN overall_plan |-> overall_plan[key] \o FolderPlan(i)[key]])

\* create_sync_plan; an exception of a Drive scan leaves it, and main's
\* sync functions return False without a plan.
CreateSyncPlan ==
    /\ pc = "start"
    /\ IF \E i \in 1..NumPairs : HierarchyRaises(drive_store[i])
       THEN /\ pc' = "failed"
            /\ UNCHANGED <<drive_structure, local_structure, sync_plan>>
       ELSE /\ drive_structure' = [i \in 1..NumPairs |-> ScanDriveStructure(drive_store[i])]
            /\ local_structure' = [i \in 1..NumPairs |-> LocalStructureOf(i)]
            /\ sync_plan' = OverallPlan(1, EmptyPlan)
            /\ pc' = "planned"
    /\ UNCHANGED <<dry_run, mapped, exclusions, unreadable, sync_folders, conflict_resolution, drive_store, local_store,
                   direction, stats, utc_offset, local_fs_dirs,
          local_fs_files, remote_folders, remote_files, todo, log>>

(***************************************************************************)
(* SyncExecutor: path mapping.                                             *)
(***************************************************************************)
RootName == <<"r", "o", "o", "t">>

IsDriveRoot(drive_folder) == drive_folder = RootName \/ drive_folder = <<Slash>>

\* The first of the root pairs a loop over sync_folders stops at, 0 when it
\* stops at none.
FirstPair(hits) ==
    IF hits = {} THEN 0 ELSE CHOOSE i \in hits : \A j \in hits : i <= j

\* _get_local_path_for_drive_path
GetLocalPathForDrivePath(drive_path) ==
    LET Matches(i) ==
            \/ IsDriveRoot(sync_folders[i][1]) /\ ~StartsWith(drive_path, <<Slash>>)
            \/ StartsWith(drive_path, sync_folders[i][1])
        hit == FirstPair({i \in 1..NumPairs : Matches(i)})
        drive_folder == sync_folders[hit][1]
        local_folder == sync_folders[hit][2]
        relative_path == LStripSlash(DropFirst(drive_path, Len(drive_folder)))
    IN IF NumPairs = 0 THEN <<>>
       ELSE IF ~HasSlash(drive_path)
       THEN OsPathNormpath(OsPathJoin(sync_folders[1][2], drive_path))
       ELSE IF hit = 0
       THEN OsPathNormpath(OsPathJoin(sync_folders[1][2], Basename(drive_path)))
       ELSE IF IsDriveRoot(drive_folder) /\ ~StartsWith(drive_path, <<Slash>>)
       THEN OsPathNormpath(OsPathJoin(local_folder, drive_path))
       ELSE OsPathNormpath(OsPathJoin(local_folder, relative_path))

LocalBaseName(i) == Basename(OsPathNormpath(sync_folders[i][2]))

\* _get_drive_path_for_local_path
GetDrivePathForLocalPath(local_path) ==
    LET Matches(i) == StartsWith(local_path, LocalBaseName(i))
        hit == FirstPair({i \in 1..NumPairs : Matches(i)})
        drive_folder == sync_folders[hit][1]
        relative_path == LStripSlash(DropFirst(local_path, Len(LocalBaseName(hit))))
    IN IF hit = 0 THEN <<>>
       ELSE IF relative_path # <<>>
       THEN SlashJoin(RStripSlash(drive_folder), relative_path)
       ELSE drive_folder

\* _get_absolute_local_path
GetAbsoluteLocalPath(relative_path) ==
    LET first_part == SplitSlash(relative_path)[1]
        ByBaseName(i) == StartsWith(relative_path, LocalBaseName(i))
        ByFirstPart(i) == Basename(sync_folders[i][2]) = first_part
        Inside(i) ==
            \/ \E k \in 1..Len(sync_folders[i][2]) :
                  StartsWith(DropFirst(sync_folders[i][2] \o <<Slash>>, k - 1),
                             <<Slash>> \o first_part \o <<Slash>>)
            \/ EndsWith(sync_folders[i][2], <<Slash>> \o first_part)
        hit1 == FirstPair({i \in 1..NumPairs : ByBaseName(i)})
        hit2 == FirstPair({i \in 1..NumPairs : ByFirstPart(i)})
        hit3 == FirstPair({i \in 1..NumPairs : Inside(i)})
    IN IF hit1 # 0
       THEN OsPathNormpath(sync_folders[hit1][2]
                           \o DropFirst(relative_path, Len(LocalBaseName(hit1))))
       ELSE IF hit2 # 0
       THEN OsPathNormpath(OsPathJoin(Dirname(sync_folders[hit2][2]), relative_path))
       ELSE IF hit3 # 0
       THEN OsPathNormpath(OsPathJoin(sync_folders[hit3][2], relative_path))
       ELSE <<>>

(***************************************************************************)
(* The two stores as the executor finds and changes them.                  *)
(***************************************************************************)
\* A path and every directory above it.
WithAncestors(path) ==
    {path} \cup {SubSeq(path, 1, k - 1) : k \in {j \in 2..Len(path) : path[j] = Slash}}
           \cup (IF StartsWith(path, <<Slash>>) THEN {<<Slash>>} ELSE {})

\* find_folder_by_path and create_folder_path strip the slashes around a path.
StripSlashes(path) == RStripSlash(LStripSlash(path))

\* find_folder_by_path finds the folder.
FolderFound(folders, path) == StripSlashes(path) = <<>> \/ StripSlashes(path) \in folders

(***************************************************************************)
(* SyncExecutor: execute_plan.                                             *)
(***************************************************************************)
Directions == {"down", "up", "both"}

\* The phases execute_plan runs for a direction, in its order.
DownPhases ==
    <<"create_missing_folders", "download_files">>
    \o (IF Preference("drive") = "drive" THEN <<"resolve_conflicts_from_drive">> ELSE <<>>)

UpPhases ==
    <<"create_remote_folders", "upload_files">>
    \o (IF Preference("local") = "local"
        THEN <<"resolve_conflicts_from_local", "update_conflicts">> ELSE <<>>)

\* The phases with the transfers of a direction ahead of its folders.
PhasesTransfersFirst(dir) ==
    (IF dir \in {"down", "both"}
     THEN <<"download_files", "create_missing_folders">>
          \o (IF Preference("drive") = "drive"
              THEN <<"resolve_conflicts_from_drive">> ELSE <<>>)
     ELSE <<>>)
    \o (IF dir \in {"up", "both"}
        THEN <<"upload_files", "create_remote_folders">>
             \o (IF Preference("local") = "local"
                 THEN <<"resolve_conflicts_from_local", "update_conflicts">> ELSE <<>>)
        ELSE <<>>)

\* The phases with the up half ahead of the down half.
PhasesUpFirst(dir) ==
    (IF dir \in {"up", "both"} THEN UpPhases ELSE <<>>)
    \o (IF dir \in {"down", "both"} THEN DownPhases ELSE <<>>)

\* The phases of a run that does both halves whatever the direction.
PhasesBothHalves(dir) == DownPhases \o UpPhases

Phases(dir) ==
    (IF dir \in {"down", "both"} THEN DownPhases ELSE <<>>)
    \o (IF dir \in {"up", "both"} THEN UpPhases ELSE <<>>)

\* The list a phase loops over.
ItemsOf(phase) ==
    CASE phase = "create_missing_folders" -> sync_plan.drive_only_folders
      [] phase = "download_files" -> sync_plan.to_download
      [] phase = "resolve_conflicts_from_drive" ->
            [k \in 1..Len(sync_plan.conflicts) |-> sync_plan.conflicts[k][1]]
      [] phase = "create_remote_folders" -> sync_plan.local_only_folders
      [] phase = "upload_files" -> sync_plan.to_upload
      [] phase = "resolve_conflicts_from_local" ->
            [k \in 1..Len(sync_plan.conflicts) |-> sync_plan.conflicts[k][2]]
      [] phase = "update_conflicts" -> sync_plan.conflicts

PhaseIndex(dir, phase) == CHOOSE k \in 1..Len(Phases(dir)) : Phases(dir)[k] = phase

\* The failures the stores have answered with in this run.
Failures == Cardinality({k \in 1..Len(log) : log[k].result \in {"fail", "raise"}})

\* A store call may fail while the run has failures left.
Outcomes(possible) == {o \in possible : o = "ok" \/ Failures < MaxFailures}

\* A loop that a failed item ends.
RemainingAbortOnFailure(items, outcome) ==
    IF outcome \in {"fail", "raise"} THEN <<>> ELSE Tail(items)

\* What is left of a loop's list after one item: the try/except is inside
\* the loop, so the loop goes on whatever happened to the item.
Remaining(items, outcome) == Tail(items)

Event(op, path, result) == [phase |-> pc, op |-> op, path |-> path, result |-> result]

\* The statistics of a run, as SyncExecutor.__init__ and execute_plan set them.
ZeroStats ==
    [downloaded_files |-> 0, downloaded_bytes |-> 0, uploaded_files |-> 0,
     uploaded_bytes |-> 0, created_folders |-> 0, created_remote_folders |-> 0,
     errors |-> 0]

\* rec.get(key), <<>> standing for None
GetOr(rec, key) == IF key \in DOMAIN rec THEN rec[key] ELSE <<>>

\* os.path.exists
LocalExists(path) == path \in local_fs_dirs \cup DOMAIN local_fs_files

\* The clock when the run writes a file: later than every modification
\* time the stores hold.
Now == MtimeTolerance + MaxTimeSteps

\* The local file a finished download leaves: the content of the remote
\* file, written now.
DownloadedFile(file, local_path) ==
    [name |-> Basename(local_path), st_size |-> file.size, st_mtime |-> Now,
     digest |-> IF file.md5 # NoHash THEN file.md5 ELSE "H1"]

\* A run that executes every plan, dry run or not.
MayExecuteAlways == TRUE

\* main's sync functions return after showing the plan when dry_run is set.
MayExecute == ~dry_run

\* The return of a dry run.
DryRunReturn ==
    /\ pc = "planned"
    /\ dry_run
    /\ pc' = "reported"
    /\ UNCHANGED <<dry_run, mapped, exclusions, unreadable, sync_folders, conflict_resolution, drive_store,
                   local_store, drive_structure, local_structure, sync_plan,
                   direction, stats, utc_offset, local_fs_dirs, local_fs_files,
                   remote_folders, remote_files, todo, log>>

\* execute_plan up to its first phase: the statistics are reset.
ExecutePlan(dir) ==
    /\ pc = "planned"
    /\ MayExecute
    /\ direction' = dir
    /\ stats' = ZeroStats
    /\ pc' = Phases(dir)[1]
    /\ todo' = ItemsOf(Phases(dir)[1])
    /\ UNCHANGED <<dry_run, mapped, exclusions, unreadable, sync_folders, conflict_resolution, drive_store, local_store,
                   drive_structure, local_structure, sync_plan, utc_offset,
                   local_fs_dirs, local_fs_files, remote_folders, remote_files, log>>

\* execute_plan between two phases, and its return after the last one.
AdvancePhase ==
    /\ pc \in Range(Phases(direction))
    /\ todo = <<>>
    /\ LET k == PhaseIndex(direction, pc)
       IN IF k = Len(Phases(direction))
          THEN pc' = "done" /\ todo' = <<>>
          ELSE pc' = Phases(direction)[k + 1] /\ todo' = ItemsOf(Phases(direction)[k + 1])
    /\ UNCHANGED <<dry_run, mapped, exclusions, unreadable, sync_folders, conflict_resolution, drive_store, local_store,
                   drive_structure, local_structure, sync_plan, direction, stats,
                   utc_offset, local_fs_dirs, local_fs_files, remote_folders,
                   remote_files, log>>

\* One round of _create_missing_folders' loop; the recursion into the
\* children runs before the loop goes on.
CreateMissingFolder ==
    /\ pc = "create_missing_folders"
    /\ todo # <<>>
    /\ LET folder == Head(todo)
           local_base_path == GetLocalPathForDrivePath(folder.path)
       IN IF local_base_path = <<>>
          THEN /\ log' = Append(log, Event("mkdir", folder.path, "unmapped"))
               /\ todo' = Remaining(todo, "unmapped")
               /\ UNCHANGED <<stats, local_fs_dirs>>
          ELSE IF LocalExists(local_base_path)
          THEN /\ log' = Append(log, Event("mkdir", folder.path, "exists"))
               /\ todo' = ChildrenOf(folder) \o Remaining(todo, "exists")
               /\ UNCHANGED <<stats, local_fs_dirs>>
          ELSE \E outcome \in Outcomes({"ok", "raise"}) :
                 /\ log' = Append(log, Event("mkdir", folder.path, outcome))
                 /\ IF outcome = "ok"
                    THEN /\ local_fs_dirs' = local_fs_dirs \cup WithAncestors(local_base_path)
                         /\ stats' = [stats EXCEPT !.created_folders = @ + 1]
                         /\ todo' = ChildrenOf(folder) \o Remaining(todo, outcome)
                    ELSE /\ stats' = [stats EXCEPT !.errors = @ + 1]
                         /\ todo' = Remaining(todo, outcome)
                         /\ UNCHANGED local_fs_dirs
    /\ UNCHANGED <<dry_run, mapped, exclusions, unreadable, sync_folders, conflict_resolution, drive_store, local_store,
                   drive_structure, local_structure, sync_plan, pc, direction,
                   utc_offset, local_fs_files, remote_folders, remote_files>>

\* One round of _download_files' loop, for a planned download or for the
\* remote file of a conflict.
DownloadFile ==
    /\ pc \in {"download_files", "resolve_conflicts_from_drive"}
    /\ todo # <<>>
    /\ LET file == Head(todo)
           given == GetOr(file, "local_path")
           local_path == IF given # <<>> THEN given
                         ELSE GetLocalPathForDrivePath(file.full_path)
       IN IF file.is_google_doc
          THEN /\ log' = Append(log, Event("download", file.full_path, "google_doc"))
               /\ todo' = Remaining(todo, "google_doc")
               /\ UNCHANGED <<stats, local_fs_dirs, local_fs_files>>
          ELSE IF local_path = <<>>
          THEN /\ log' = Append(log, Event("download", file.full_path, "unmapped"))
               /\ todo' = Remaining(todo, "unmapped")
               /\ UNCHANGED <<stats, local_fs_dirs, local_fs_files>>
          ELSE \E outcome \in Outcomes({"ok", "fail", "raise"}) :
                 /\ log' = Append(log, Event("download", file.full_path, outcome))
                 /\ todo' = Remaining(todo, outcome)
                 /\ local_fs_dirs' = IF outcome = "raise" THEN local_fs_dirs
                                     ELSE local_fs_dirs \cup WithAncestors(Dirname(local_path))
                 /\ local_fs_files' =
                       IF outcome = "ok"
                       THEN (local_path :> DownloadedFile(file, local_path)) @@ local_fs_files
                       ELSE local_fs_files
                 /\ stats' = IF outcome = "ok"
                             THEN [stats EXCEPT !.downloaded_files = @ + 1,
                                                !.downloaded_bytes = @ + file.size]
                             ELSE [stats EXCEPT !.errors = @ + 1]
    /\ UNCHANGED <<dry_run, mapped, exclusions, unreadable, sync_folders, conflict_resolution, drive_store, local_store,
                   drive_structure, local_structure, sync_plan, pc, direction,
                   utc_offset, remote_folders, remote_files>>

\* One round of _create_remote_folders' loop.
CreateRemoteFolder ==
    /\ pc = "create_remote_folders"
    /\ todo # <<>>
    /\ LET folder == Head(todo)
           drive_path == GetDrivePathForLocalPath(folder.path)
       IN IF drive_path = <<>>
          THEN /\ log' = Append(log, Event("create_folder", folder.path, "unmapped"))
               /\ todo' = Remaining(todo, "unmapped")
               /\ UNCHANGED <<stats, remote_folders>>
          ELSE \E outcome \in Outcomes({"ok", "fail", "raise"}) :
                 /\ log' = Append(log, Event("create_folder", folder.path, outcome))
                 /\ remote_folders' =
                       IF outcome = "ok"
                       THEN remote_folders \cup (WithAncestors(StripSlashes(drive_path)) \ {<<>>})
                       ELSE remote_folders
                 /\ stats' = IF outcome = "ok"
                             THEN [stats EXCEPT !.created_remote_folders = @ + 1]
                             ELSE [stats EXCEPT !.errors = @ + 1]
                 /\ todo' = IF outcome = "raise" THEN Remaining(todo, outcome)
                            ELSE ChildrenOf(folder) \o Remaining(todo, outcome)
    /\ UNCHANGED <<dry_run, mapped, exclusions, unreadable, sync_folders, conflict_resolution, drive_store, local_store,
                   drive_structure, local_structure, sync_plan, pc, direction,
                   utc_offset, local_fs_dirs, local_fs_files, remote_files>>

\* One round of _upload_files' loop, for a planned upload or for the local
\* file of a conflict.
UploadFile ==
    /\ pc \in {"upload_files", "resolve_conflicts_from_local"}
    /\ todo # <<>>
    /\ LET file == Head(todo)
           local_path == GetAbsoluteLocalPath(file.full_path)
           drive_parent_path == GetDrivePathForLocalPath(file.parent_path)
           found == FolderFound(remote_folders, drive_parent_path)
           created == remote_folders \cup (WithAncestors(StripSlashes(drive_parent_path)) \ {<<>>})
       IN IF local_path = <<>>
          THEN /\ log' = Append(log, Event("upload", file.full_path, "unmapped"))
               /\ todo' = Remaining(todo, "unmapped")
               /\ UNCHANGED <<stats, remote_folders, remote_files>>
          ELSE IF ~LocalExists(local_path)
          THEN /\ log' = Append(log, Event("upload", file.full_path, "missing"))
               /\ todo' = Remaining(todo, "missing")
               /\ UNCHANGED <<stats, remote_folders, remote_files>>
          ELSE IF drive_parent_path = <<>>
          THEN /\ log' = Append(log, Event("upload", file.full_path, "unmapped"))
               /\ todo' = Remaining(todo, "unmapped")
               /\ UNCHANGED <<stats, remote_folders, remote_files>>
          ELSE \E outcome \in Outcomes({"ok", "fail", "raise"} \cup
                                       (IF found THEN {} ELSE {"no_parent"})) :
                 /\ log' = Append(log, Event("upload", file.full_path,
                                             IF outcome = "no_parent" THEN "fail" ELSE outcome))
                 /\ todo' = Remaining(todo, outcome)
                 /\ remote_folders' = IF outcome \in {"ok", "fail"} THEN created
                                      ELSE remote_folders
                 /\ remote_files' = IF outcome = "ok"
                                    THEN Append(remote_files,
                                                [parent |-> StripSlashes(drive_parent_path),
                                                 name |-> file.name,
                                                 from |-> file.full_path])
                                    ELSE remote_files
                 /\ stats' = IF outcome = "ok"
                             THEN [stats EXCEPT !.uploaded_files = @ + 1,
                                                !.uploaded_bytes = @ + file.size]
                             ELSE [stats EXCEPT !.errors = @ + 1]
    /\ UNCHANGED <<dry_run, mapped, exclusions, unreadable, sync_folders, conflict_resolution, drive_store, local_store,
                   drive_structure, local_structure, sync_plan, pc, direction,
                   utc_offset, local_fs_dirs, local_fs_files>>

\* One round of the second loop of _resolve_conflicts_from_local: the
\* remote file of a conflict is updated in place; what update_file returns
\* is not looked at.
UpdateConflict ==
    /\ pc = "update_conflicts"
    /\ todo # <<>>
    /\ LET drive_file == Head(todo)[1]
           local_file == Head(todo)[2]
           drive_id == GetOr(drive_file, "id")
           local_path == GetAbsoluteLocalPath(local_file.full_path)
       IN IF drive_id # <<>> /\ local_path # <<>> /\ LocalExists(local_path)
          THEN \E outcome \in Outcomes({"ok", "fail"}) :
                 /\ log' = Append(log, Event("update", drive_file.full_path, outcome))
                 /\ todo' = Remaining(todo, outcome)
          ELSE /\ log' = Append(log, Event("update", drive_file.full_path, "missing"))
               /\ todo' = Remaining(todo, "missing")
    /\ UNCHANGED <<dry_run, mapped, exclusions, unreadable, sync_folders, conflict_resolution, drive_store, local_store,
                   drive_structure, local_structure, sync_plan, pc, direction, stats,
                   utc_offset, local_fs_dirs, local_fs_files, remote_folders,
                   remote_files>>

(***************************************************************************)
(* The initial states.                                                     *)
(***************************************************************************)
Policies == {"drive", "local", "unset"}

\* No path mapper has been called.
NoCall == [fn |-> "none", arg |-> <<>>, result |-> <<>>]

DriveRootName == <<"D">>
LocalRootName == <<"L">>

\* Either two trees of folders whose files take few shapes, or two single
\* folders whose files take every shape.
StorePairs ==
    { stores \in DriveFolders(DriveRootName, MaxDepth, MaxNodes, SmallMetas)
                   \X LocalFolders(LocalRootName, MaxDepth, MaxNodes, SmallMetas) :
        NodeCount(stores[1]) + NodeCount(stores[2]) <= MaxNodes }
    \cup
    (DriveFolders(DriveRootName, 0, 1, RichMetas)
        \X LocalFolders(LocalRootName, 0, 1, RichMetas))

\* The files of a scanned tree, each with its path below the root, built
\* from the names on the way down.
RECURSIVE FileNodes(_, _)
FileNodes(folder, rel) ==
    {[rel |-> SlashJoin(rel, f.name), node |-> f] : f \in Range(FilesOf(folder))}
    \cup UNION {FileNodes(c, SlashJoin(rel, c.name)) : c \in Range(ChildrenOf(folder))}

\* The folders below the root of a scanned tree, likewise.
RECURSIVE FolderNodes(_, _)
FolderNodes(folder, rel) ==
    {[rel |-> SlashJoin(rel, c.name), node |-> c] : c \in Range(ChildrenOf(folder))}
    \cup UNION {FolderNodes(c, SlashJoin(rel, c.name)) : c \in Range(ChildrenOf(folder))}

\* The ids the Drive gives its folders and files: here, their paths.
RECURSIVE WithIds(_, _)
WithIds(folder, path) ==
    [id |-> <<"#">> \o path,
     name |-> folder.name,
     files |-> [k \in 1..Len(folder.files) |->
                  [id |-> <<"#">> \o SlashJoin(path, folder.files[k].name)]
                  @@ folder.files[k]],
     children |-> [k \in 1..Len(folder.children) |->
                     WithIds(folder.children[k],
                             SlashJoin(path, folder.children[k].name))]]

\* What exists when the run starts: the two stores as they are scanned.
InitialLocalDirs(i) ==
    IF local_store[i] = None THEN WithAncestors(Dirname(sync_folders[i][2]))
    ELSE WithAncestors(sync_folders[i][2])
         \cup {sync_folders[i][2] \o n.rel : n \in FolderNodes(local_store[i], <<>>)}

\* The files below a directory, each under its absolute path.
FilesUnder(root, store) ==
    LET nodes == FileNodes(store, <<>>)
    IN [p \in {root \o n.rel : n \in nodes} |->
          (CHOOSE n \in nodes : root \o n.rel = p).node]

InitialLocalFiles(i) ==
    IF local_store[i] = None THEN <<>>
    ELSE FilesUnder(sync_folders[i][2], local_store[i])

InitialRemoteFolders(i) ==
    IF drive_store[i] = None THEN {}
    ELSE WithAncestors(sync_folders[i][1])
         \cup {sync_folders[i][1] \o n.rel : n \in FolderNodes(drive_store[i], <<>>)}

Init ==
    /\ sync_folders = OnePair
    /\ conflict_resolution \in Policies
    /\ \E stores \in StorePairs :
          /\ drive_store = <<WithIds(stores[1], sync_folders[1][1])>>
          /\ local_store = <<stores[2]>>
    /\ local_fs_dirs = UNION {InitialLocalDirs(i) : i \in 1..NumPairs}
    /\ local_fs_files =
          [p \in UNION {DOMAIN InitialLocalFiles(i) : i \in 1..NumPairs} |->
             InitialLocalFiles(CHOOSE i \in 1..NumPairs :
                                  p \in DOMAIN InitialLocalFiles(i))[p]]
    /\ remote_folders = UNION {InitialRemoteFolders(i) : i \in 1..NumPairs}
    /\ remote_files = <<>>
    /\ utc_offset = 0
    /\ drive_structure = <<>>
    /\ local_structure = <<>>
    /\ sync_plan = EmptyPlan
    /\ pc = "start"
    /\ direction = "none"
    /\ stats = ZeroStats
    /\ todo = <<>>
    /\ log = <<>>
    /\ dry_run \in BOOLEAN
    /\ exclusions = {}
    /\ unreadable = {}
    /\ mapped = NoCall

\* What execute_plan does next once it has started.
ExecuteStep ==
    \/ AdvancePhase
    \/ CreateMissingFolder
    \/ DownloadFile
    \/ CreateRemoteFolder
    \/ UploadFile
    \/ UpdateConflict

Next ==
    \/ CreateSyncPlan
    \/ DryRunReturn
    \/ \E dir \in Directions : ExecutePlan(dir)
    \/ ExecuteStep

Spec == Init /\ [][Next]_vars

(***************************************************************************)
(* The round trip: a run in direction down, then a second scan and diff    *)
(* of the two sides as the run has left them.                              *)
(***************************************************************************)
\* The seconds a local clock west of Greenwich is behind UTC.
WestOffset == 3600

\* scan_local_structure writes the local wall clock time of a file and
\* marks it 'Z': the time it gives is off by the offset of the local clock.
UtcOffsets == {0, 0 - WestOffset}

\* The local directory as it is now, in the shape the scanner walks.
RECURSIVE LocalTreeAt(_, _)
LocalTreeAt(dir, name) ==
    LET IsFile(n) == OsPathJoin(dir, n) \in DOMAIN local_fs_files
        IsDir(n) == OsPathJoin(dir, n) \in local_fs_dirs
        files == SelectSeq(FileNameSeq, IsFile)
        children == SelectSeq(FolderNameSeq, IsDir)
    IN [name |-> name,
        files |-> [k \in 1..Len(files) |-> local_fs_files[OsPathJoin(dir, files[k])]],
        children |-> [k \in 1..Len(children) |->
                        LocalTreeAt(OsPathJoin(dir, children[k]), children[k])]]

LocalStoreNow(i) ==
    IF sync_folders[i][2] \in local_fs_dirs
    THEN LocalTreeAt(sync_folders[i][2], Basename(sync_folders[i][2]))
    ELSE None

LocalStructureNow(i) == LocalStructureFrom(sync_folders[i][2], LocalStoreNow(i))

RECURSIVE RescanPlan(_, _)
RescanPlan(i, overall_plan) ==
    IF i > NumPairs THEN overall_plan
    ELSE RescanPlan(i + 1,
             [key \in DOMAIN overall_plan |->
                overall_plan[key] \o PairPlan(i, LocalStructureNow(i))[key]])

\* create_sync_plan once more, after the run.
Rescan ==
    /\ pc = "done"
    /\ pc' = "rescanned"
    /\ UNCHANGED <<dry_run, mapped, exclusions, unreadable, sync_folders, conflict_resolution, drive_store,
                   direction, stats, utc_offset, local_fs_dirs, local_fs_files,
                   remote_folders, remote_files, todo, log>>
    /\ local_store' = [i \in 1..NumPairs |-> LocalStoreNow(i)]
    /\ drive_structure' = [i \in 1..NumPairs |-> ScanDriveStructure(drive_store[i])]
    /\ local_structure' = [i \in 1..NumPairs |-> LocalStructureNow(i)]
    /\ sync_plan' = RescanPlan(1, EmptyPlan)

RoundTripStorePairs ==
    { stores \in DriveFolders(DriveRootName, 1, ExecNodes, SmallMetas)
                   \X LocalFolders(LocalRootName, 1, ExecNodes, SmallMetas) :
        NodeCount(stores[1]) + NodeCount(stores[2]) <= ExecNodes }
    \cup
    (DriveFolders(DriveRootName, 0, 1, RichMetas)
        \X LocalFolders(LocalRootName, 0, 1, RichMetas))

RoundTripInit ==
    /\ sync_folders = OnePair
    /\ conflict_resolution \in Policies
    /\ utc_offset \in UtcOffsets
    /\ \E stores \in RoundTripStorePairs :
          /\ drive_store = <<WithIds(stores[1], sync_folders[1][1])>>
          /\ local_store = <<stores[2]>>
    /\ local_fs_dirs = InitialLocalDirs(1)
    /\ local_fs_files = InitialLocalFiles(1)
    /\ remote_folders = InitialRemoteFolders(1)
    /\ remote_files = <<>>
    /\ drive_structure = <<>>
    /\ local_structure = <<>>
    /\ sync_plan = EmptyPlan
    /\ pc = "start"
    /\ direction = "none"
    /\ stats = ZeroStats
    /\ todo = <<>>
    /\ log = <<>>
    /\ dry_run = FALSE
    /\ exclusions = {}
    /\ unreadable = {}
    /\ mapped = NoCall

RoundTripNext ==
    \/ CreateSyncPlan
    \/ ExecutePlan("down")
    \/ AdvancePhase
    \/ CreateMissingFolder
    \/ DownloadFile
    \/ Rescan

RoundTripSpec == RoundTripInit /\ [][RoundTripNext]_vars

(***************************************************************************)
(* The path mappers of the executor, called on their own: the table holds  *)
(* up to two root pairs and the paths are a few that match a root, match   *)
(* none, or match one as a string only.                                    *)
(***************************************************************************)
PairChoices ==
    { << <<"D">>, <<Slash, "h", Slash, "L">> >>,
      << <<"D", "A">>, <<Slash, "h", Slash, "M">> >>,
      << RootName, <<Slash, "h", Slash, "N">> >>,
      << <<Slash>>, <<Slash, "h", Slash, "P">> >> }

\* sync_folders is a dict: no Drive folder is a key twice.
PathTables ==
    {<<>>} \cup {<<a>> : a \in PairChoices}
           \cup {t \in {<<a, b>> : a \in PairChoices, b \in PairChoices} :
                    t[1][1] # t[2][1]}

DrivePaths ==
    { <<"x">>, <<"D">>, <<"D", Slash, "x">>, <<"D", "A", Slash, "x">>,
      <<"D", Slash, "A", Slash, "x">>, <<"A", Slash, "x">>, <<"B">> }

LocalPaths ==
    { <<"L">>, <<"L", Slash, "x">>, <<"L", "L", Slash, "x">>, <<"M", Slash, "x">>,
      <<"Z", Slash, "x">>, <<"h", Slash, "x">> }

PathInit ==
    /\ sync_folders \in PathTables
    /\ conflict_resolution = "unset"
    /\ drive_store = <<>>
    /\ local_store = <<>>
    /\ drive_structure = <<>>
    /\ local_structure = <<>>
    /\ sync_plan = EmptyPlan
    /\ local_fs_dirs = {}
    /\ local_fs_files = <<>>
    /\ remote_folders = {}
    /\ remote_files = <<>>
    /\ utc_offset = 0
    /\ pc = "start"
    /\ direction = "none"
    /\ stats = ZeroStats
    /\ todo = <<>>
    /\ log = <<>>
    /\ dry_run = FALSE
    /\ exclusions = {}
    /\ unreadable = {}
    /\ mapped = NoCall

\* One call of a mapper: what it was given and what it returned.
Call(fn, arg, result) == [fn |-> fn, arg |-> arg, result |-> result]

\* What a mapper leaves alone: everything but the record of its call.
NotMapped ==
    <<dry_run, exclusions, unreadable, sync_folders, conflict_resolution,
      drive_store, local_store, drive_structure, local_structure, sync_plan, pc, direction, stats,
      utc_offset, local_fs_dirs, local_fs_files, remote_folders, remote_files,
      todo, log>>

MapDrivePath ==
    /\ \E p \in DrivePaths :
          mapped' = Call("local_for_drive", p, GetLocalPathForDrivePath(p))
    /\ UNCHANGED NotMapped

MapLocalPath ==
    /\ \E p \in LocalPaths :
          mapped' = Call("drive_for_local", p, GetDrivePathForLocalPath(p))
    /\ UNCHANGED NotMapped

MapRelativePath ==
    /\ \E p \in LocalPaths :
          mapped' = Call("absolute_local", p, GetAbsoluteLocalPath(p))
    /\ UNCHANGED NotMapped

PathNext == MapDrivePath \/ MapLocalPath \/ MapRelativePath

PathSpec == PathInit /\ [][PathNext]_vars

(***************************************************************************)
(* execute_plan on a plan it is handed: the plan was made for the Drive    *)
(* folder "D" and the local directory "/g/Z", and the executor's table     *)
(* holds the pair of "D" and "/h/L", or no pair at all.                    *)
(***************************************************************************)
ForeignLocal == <<Slash, "g", Slash, "Z">>

ExecTables == {OnePair, <<>>}

ExecStorePairs ==
    { stores \in DriveFolders(DriveRootName, 1, ExecNodes, SmallMetas)
                   \X LocalFolders(Basename(ForeignLocal), 1, ExecNodes, SmallMetas) :
        NodeCount(stores[1]) + NodeCount(stores[2]) <= ExecNodes }

\* The plan compare_structures makes of the two trees; nothing in it is
\* annotated with a destination.
GivenPlan(stores) ==
    CompareStructures(ScanDriveStructure(WithIds(stores[1], DriveRootName)),
                      ScanLocalStructure(ForeignLocal, stores[2], 0))

\* The files of a scanned Drive folder whose MIME type is a Google one.
GoogleDocsIn(folder) ==
    LET IsDoc(f) == f.mimeType \in google_mime_types
    IN SelectSeq(FilesOf(folder), IsDoc)

\* The plans a caller hands to execute_plan: the one compare_structures
\* made, or that one with the folder's Google documents put at the end of
\* its download list.
GivenPlans(stores) ==
    LET plan == GivenPlan(stores)
        docs == GoogleDocsIn(ScanDriveStructure(WithIds(stores[1], DriveRootName)))
    IN {plan, [plan EXCEPT !.to_download = @ \o docs]}

ExecInit ==
    /\ exclusions = {}
    /\ unreadable = {}
    /\ sync_folders \in ExecTables
    /\ conflict_resolution \in Policies
    /\ \E stores \in ExecStorePairs :
          /\ drive_store = <<WithIds(stores[1], DriveRootName)>>
          /\ local_store = <<stores[2]>>
          /\ sync_plan \in GivenPlans(stores)
    /\ local_fs_dirs =
          WithAncestors(ForeignLocal)
          \cup {ForeignLocal \o n.rel : n \in FolderNodes(local_store[1], <<>>)}
    /\ local_fs_files = FilesUnder(ForeignLocal, local_store[1])
    /\ remote_folders =
          WithAncestors(DriveRootName)
          \cup {DriveRootName \o n.rel : n \in FolderNodes(drive_store[1], <<>>)}
    /\ remote_files = <<>>
    /\ utc_offset = 0
    /\ drive_structure = <<>>
    /\ local_structure = <<>>
    /\ pc = "planned"
    /\ direction = "none"
    /\ stats = ZeroStats
    /\ todo = <<>>
    /\ log = <<>>
    /\ dry_run = FALSE
    /\ mapped = NoCall

ExecNext ==
    \/ \E dir \in Directions : ExecutePlan(dir)
    \/ ExecuteStep

ExecSpec == ExecInit /\ [][ExecNext]_vars

(***************************************************************************)
(* Several root pairs, a root of two components, and roots that are        *)
(* missing: the whole run on the tables a configuration may hold.          *)
(***************************************************************************)
\* Two pairs of unrelated names; one pair whose Drive root is the folder
\* "D" inside "P"; two pairs of which one local base name begins with the
\* other.
RootsTables ==
    { << << <<"D">>, <<Slash, "h", Slash, "L">> >>,
         << <<"E">>, <<Slash, "h", Slash, "M">> >> >>,
      << << <<"P", Slash, "D">>, <<Slash, "h", Slash, "L">> >> >>,
      << << <<"D">>, <<Slash, "h", Slash, "L">> >>,
         << <<"E">>, <<Slash, "h", Slash, "L", "L">> >> >> }

\* What may be behind one root pair: a Drive folder of the root's last
\* name or none, a local directory or none.
RootsDriveChoices(pair) ==
    {None} \cup {WithIds(f, pair[1]) :
                    f \in DriveFolders(Basename(pair[1]), MaxDepth, RootsNodes, SmallMetas)}

RootsLocalChoices(pair) ==
    {None} \cup LocalFolders(Basename(pair[2]), MaxDepth, RootsNodes, SmallMetas)

NodesOf(store) == IF store = None THEN 0 ELSE NodeCount(store)

RECURSIVE NodesOfAll(_)
NodesOfAll(stores) ==
    IF stores = <<>> THEN 0 ELSE NodesOf(Head(stores)) + NodesOfAll(Tail(stores))

\* The stores behind the pairs of a table, per pair, as <<Drive, local>>.
RootsStores(table) ==
    LET one == {<<d>> : d \in RootsDriveChoices(table[1])}
                  \X {<<l>> : l \in RootsLocalChoices(table[1])}
        two == {<<s[1] \o <<d>>, s[2] \o <<l>>>> :
                   s \in one,
                   d \in RootsDriveChoices(table[Len(table)]),
                   l \in RootsLocalChoices(table[Len(table)])}
    IN {s \in (IF Len(table) = 1 THEN one ELSE two) :
           NodesOfAll(s[1]) + NodesOfAll(s[2]) <= RootsNodes}

RootsInit ==
    /\ sync_folders \in RootsTables
    /\ conflict_resolution \in Policies
    /\ \E stores \in RootsStores(sync_folders) :
          /\ drive_store = stores[1]
          /\ local_store = stores[2]
    /\ local_fs_dirs = UNION {InitialLocalDirs(i) : i \in 1..NumPairs}
    /\ local_fs_files =
          [p \in UNION {DOMAIN InitialLocalFiles(i) : i \in 1..NumPairs} |->
             InitialLocalFiles(CHOOSE i \in 1..NumPairs :
                                  p \in DOMAIN InitialLocalFiles(i))[p]]
    /\ remote_folders = UNION {InitialRemoteFolders(i) : i \in 1..NumPairs}
    /\ remote_files = <<>>
    /\ utc_offset = 0
    /\ drive_structure = <<>>
    /\ local_structure = <<>>
    /\ sync_plan = EmptyPlan
    /\ pc = "start"
    /\ direction = "none"
    /\ stats = ZeroStats
    /\ todo = <<>>
    /\ log = <<>>
    /\ dry_run = FALSE
    /\ exclusions = {}
    /\ unreadable = {}
    /\ mapped = NoCall

RootsNext ==
    \/ CreateSyncPlan
    \/ \E dir \in Directions : ExecutePlan(dir)
    \/ ExecuteStep

RootsSpec == RootsInit /\ [][RootsNext]_vars

(***************************************************************************)
(* Scanning with exclusion patterns configured and with a folder whose     *)
(* listing fails.                                                          *)
(***************************************************************************)
ExclusionChoices == {{}, {<<"A">>}, {<<"x">>}, {<<"*">>}}

ScanStorePairs ==
    { stores \in DriveFolders(DriveRootName, MaxDepth, ExecNodes, SmallMetas)
                   \X LocalFolders(LocalRootName, MaxDepth, ExecNodes, SmallMetas) :
        NodeCount(stores[1]) + NodeCount(stores[2]) <= ExecNodes }

\* The structure paths of a local directory and of the directories below it.
RECURSIVE LocalFolderPaths(_, _)
LocalFolderPaths(dir, path) ==
    {path} \cup UNION {LocalFolderPaths(c, SlashJoin(path, c.name)) :
                          c \in Range(dir.children)}

\* No folder fails, or one folder of one side does.
UnreadableChoices ==
    {{}} \cup {{id} : id \in FolderIds(drive_store[1])}
         \cup {{path} : path \in LocalFolderPaths(local_store[1], LocalRootName)}

ScanInit ==
    /\ sync_folders = OnePair
    /\ conflict_resolution \in Policies
    /\ \E stores \in ScanStorePairs :
          /\ drive_store = <<WithIds(stores[1], sync_folders[1][1])>>
          /\ local_store = <<stores[2]>>
    /\ exclusions \in ExclusionChoices
    /\ unreadable \in UnreadableChoices
    /\ \/ exclusions = {}
       \/ unreadable = {}
    /\ local_fs_dirs = InitialLocalDirs(1)
    /\ local_fs_files = InitialLocalFiles(1)
    /\ remote_folders = InitialRemoteFolders(1)
    /\ remote_files = <<>>
    /\ utc_offset = 0
    /\ drive_structure = <<>>
    /\ local_structure = <<>>
    /\ sync_plan = EmptyPlan
    /\ pc = "start"
    /\ direction = "none"
    /\ stats = ZeroStats
    /\ todo = <<>>
    /\ log = <<>>
    /\ dry_run = TRUE
    /\ mapped = NoCall

ScanNext ==
    \/ CreateSyncPlan
    \/ DryRunReturn

ScanSpec == ScanInit /\ [][ScanNext]_vars

(***************************************************************************)
(* What the claims speak of.                                               *)
(***************************************************************************)
Planned == pc # "start"

Pairs == 1..NumPairs

DriveFileNodes(i) == FileNodes(drive_structure[i], <<>>)
LocalFileNodes(i) == FileNodes(local_structure[i], <<>>)
DriveFolderNodes(i) == FolderNodes(drive_structure[i], <<>>)
LocalFolderNodes(i) == FolderNodes(local_structure[i], <<>>)

\* The canonical path of a node: the root's name, then its path below it.
DriveCanonical(i, rel) == drive_structure[i].name \o rel
LocalCanonical(i, rel) == local_structure[i].name \o rel

\* How often a list holds an item of the given full path.
Occurrences(items, full_path) ==
    Cardinality({k \in 1..Len(items) : items[k].full_path = full_path})

ConflictDrivePaths == {sync_plan.conflicts[k][1].full_path : k \in 1..Len(sync_plan.conflicts)}
ConflictLocalPaths == {sync_plan.conflicts[k][2].full_path : k \in 1..Len(sync_plan.conflicts)}

\* A proper ancestor, as paths below the root.
IsBelow(rel, ancestor) == StartsWith(rel, ancestor \o <<Slash>>)

\* The same-named pairs of files: one path below the root, on both sides.
FilePairs(i) ==
    {pr \in DriveFileNodes(i) \X LocalFileNodes(i) : pr[1].rel = pr[2].rel}

InToDownload(d) == Occurrences(sync_plan.to_download, d.full_path) > 0
InToUpload(l) == Occurrences(sync_plan.to_upload, l.full_path) > 0
InConflicts(d, l) ==
    \E k \in 1..Len(sync_plan.conflicts) :
        /\ sync_plan.conflicts[k][1].full_path = d.full_path
        /\ sync_plan.conflicts[k][2].full_path = l.full_path

\* The diff took an action for the pair.
Listed(d, l) == InToDownload(d) \/ InToUpload(l) \/ InConflicts(d, l)

\* Two trees of the same folders, the same file names and the same file
\* content.
RECURSIVE SameContent(_, _)
SameContent(drive, local) ==
    /\ {f.name : f \in Range(drive.files)} = {f.name : f \in Range(local.files)}
    /\ \A d \in Range(drive.files) : \A l \in Range(local.files) :
          d.name = l.name =>
             d.md5 = l.md5 /\ d.size = l.size /\ d.modifiedTime = l.modifiedTime
    /\ {c.name : c \in Range(drive.children)} = {c.name : c \in Range(local.children)}
    /\ \A d \in Range(drive.children) : \A l \in Range(local.children) :
          d.name = l.name => SameContent(d, l)

\* C1: the diff of two trees of the same folders, file names and file
\* content (hash, size, modification time) is a plan whose five collections
\* are all empty.
C1_IdenticalTreesEmptyPlan ==
    (Planned /\ \A i \in Pairs : SameContent(drive_structure[i], local_structure[i]))
    => /\ sync_plan.to_download = <<>>
       /\ sync_plan.to_upload = <<>>
       /\ sync_plan.conflicts = <<>>
       /\ sync_plan.drive_only_folders = <<>>
       /\ sync_plan.local_only_folders = <<>>

\* Two identical trees that hold a file inside a subfolder have been diffed.
C1_Witness ==
    /\ Planned
    /\ \A i \in Pairs : SameContent(drive_structure[i], local_structure[i])
    /\ \E d \in DriveFileNodes(1) : Len(d.rel) > 2 /\ ~d.node.is_google_doc

\* A file is inside a folder the plan captured whole.
InDriveOnlyFolder(i, rel) ==
    \E f \in DriveFolderNodes(i) :
        /\ \E k \in 1..Len(sync_plan.drive_only_folders) :
              sync_plan.drive_only_folders[k].path = DriveCanonical(i, f.rel)
        /\ IsBelow(rel, f.rel)

InLocalOnlyFolder(i, rel) ==
    \E f \in LocalFolderNodes(i) :
        /\ \E k \in 1..Len(sync_plan.local_only_folders) :
              sync_plan.local_only_folders[k].path = LocalCanonical(i, f.rel)
        /\ IsBelow(rel, f.rel)

RemoteOnly(i, d) == ~d.node.is_google_doc /\ \A l \in LocalFileNodes(i) : l.rel # d.rel
LocalOnly(i, l) == \A d \in DriveFileNodes(i) : d.rel # l.rel

\* C2 as claimed: every file that is only on the remote side and no
\* opaque document, at any depth, is exactly once in to_download under its
\* canonical path; every file only on the local side exactly once in
\* to_upload.
C2_Original ==
    Planned => \A i \in Pairs :
        /\ \A d \in DriveFileNodes(i) :
              RemoteOnly(i, d) =>
                 Occurrences(sync_plan.to_download, DriveCanonical(i, d.rel)) = 1
        /\ \A l \in LocalFileNodes(i) :
              LocalOnly(i, l) =>
                 Occurrences(sync_plan.to_upload, LocalCanonical(i, l.rel)) = 1

\* C2 as amended: the same of every such file that is not inside a folder
\* the plan captured whole (a folder that exists on one side only); a file
\* inside a captured folder is not listed at all.
C2_OneSidedFilesListedOnce ==
    Planned => \A i \in Pairs :
        /\ \A d \in DriveFileNodes(i) :
              RemoteOnly(i, d) =>
                 Occurrences(sync_plan.to_download, DriveCanonical(i, d.rel))
                    = IF InDriveOnlyFolder(i, d.rel) THEN 0 ELSE 1
        /\ \A l \in LocalFileNodes(i) :
              LocalOnly(i, l) =>
                 Occurrences(sync_plan.to_upload, LocalCanonical(i, l.rel))
                    = IF InLocalOnlyFolder(i, l.rel) THEN 0 ELSE 1

\* A plan that lists a remote-only file of a subfolder both sides have, and
\* a local-only file.
C2_Witness ==
    /\ Planned
    /\ \E d \in DriveFileNodes(1) :
          /\ RemoteOnly(1, d) /\ Len(d.rel) > 2 /\ ~InDriveOnlyFolder(1, d.rel)
          /\ Occurrences(sync_plan.to_download, DriveCanonical(1, d.rel)) = 1
    /\ \E l \in LocalFileNodes(1) :
          /\ LocalOnly(1, l)
          /\ Occurrences(sync_plan.to_upload, LocalCanonical(1, l.rel)) = 1

FileRels(i) == {n.rel : n \in DriveFileNodes(i) \cup LocalFileNodes(i)}
FolderRels(i) == {n.rel : n \in DriveFolderNodes(i) \cup LocalFolderNodes(i)}

\* How many entries of the plan's file collections are about the file at
\* one path below the roots; a conflict pair is one entry.
FileListings(i, rel) ==
    Occurrences(sync_plan.to_download, DriveCanonical(i, rel))
    + Occurrences(sync_plan.to_upload, LocalCanonical(i, rel))
    + Cardinality({k \in 1..Len(sync_plan.conflicts) :
                     \/ sync_plan.conflicts[k][1].full_path = DriveCanonical(i, rel)
                     \/ sync_plan.conflicts[k][2].full_path = LocalCanonical(i, rel)})

FolderListings(i, rel) ==
    Cardinality({k \in 1..Len(sync_plan.drive_only_folders) :
                   sync_plan.drive_only_folders[k].path = DriveCanonical(i, rel)})
    + Cardinality({k \in 1..Len(sync_plan.local_only_folders) :
                     sync_plan.local_only_folders[k].path = LocalCanonical(i, rel)})

Captured(i) == {rel \in FolderRels(i) : FolderListings(i, rel) > 0}

\* The files of a captured folder, at any depth below it.
FilesBelow(folder) == {n.node : n \in FileNodes(folder, <<>>)}

\* The item has an event of the operation with the result, after an event
\* of the folder operation on the folder.
DoneAfter(op, path, folder_op, folder_path) ==
    \E j \in 1..Len(log) :
       /\ log[j].op = op /\ log[j].path = path /\ log[j].result = "ok"
       /\ \E i \in 1..(j - 1) : log[i].op = folder_op /\ log[i].path = folder_path

\* C3: after a run in direction up that ends without errors, every folder
\* of local_only_folders exists on the remote side and every file in its
\* subtree has been uploaded, after the creation of its folder; in
\* direction down every file in the subtree of a folder of
\* drive_only_folders has been downloaded after its local folder was
\* created.
C3_CapturedSubtreeTransferred ==
    (pc = "done" /\ stats.errors = 0) =>
       /\ direction = "up" =>
             \A k \in 1..Len(sync_plan.local_only_folders) :
                LET B == sync_plan.local_only_folders[k]
                IN /\ FolderFound(remote_folders, GetDrivePathForLocalPath(B.path))
                   /\ \A f \in FilesBelow(B) :
                         DoneAfter("upload", f.full_path, "create_folder", f.parent_path)
       /\ direction = "down" =>
             \A k \in 1..Len(sync_plan.drive_only_folders) :
                LET A == sync_plan.drive_only_folders[k]
                IN /\ GetLocalPathForDrivePath(A.path) \in local_fs_dirs
                   /\ \A f \in FilesBelow(A) :
                         DoneAfter("download", f.full_path, "mkdir", f.parent_path)

\* C4: in every plan a file is listed at most once over to_download,
\* to_upload and conflicts, a folder at most once over the two only-folder
\* lists, and nothing below a captured folder is listed on its own.
C4_PlanListsEachNodeOnce ==
    Planned => \A i \in Pairs :
        /\ \A rel \in FileRels(i) : FileListings(i, rel) <= 1
        /\ \A rel \in FolderRels(i) : FolderListings(i, rel) <= 1
        /\ \A top \in Captured(i) :
              /\ \A rel \in FileRels(i) : IsBelow(rel, top) => FileListings(i, rel) = 0
              /\ \A rel \in FolderRels(i) : IsBelow(rel, top) => FolderListings(i, rel) = 0

\* A plan that captured a folder holding a file and a folder, and lists a
\* file elsewhere.
C4_Witness ==
    /\ Planned
    /\ \E top \in Captured(1) :
          /\ \E rel \in FileRels(1) : IsBelow(rel, top)
          /\ \E rel \in FolderRels(1) : IsBelow(rel, top)
    /\ \E rel \in FileRels(1) : FileListings(1, rel) = 1

BothHashed(d, l) == d.md5 # NoHash /\ l.md5 # NoHash

\* C5: a same-named pair whose two hashes are present and equal (the
\* remote file no opaque document) is in none of to_download, to_upload
\* and conflicts, whatever the sizes and the modification times.
C5_EqualHashNoAction ==
    Planned => \A i \in Pairs : \A pr \in FilePairs(i) :
        LET d == pr[1].node
            l == pr[2].node
        IN (~d.is_google_doc /\ BothHashed(d, l) /\ d.md5 = l.md5) => ~Listed(d, l)

\* Such a pair, of different sizes and of times further apart than the
\* tolerance, has been diffed.
C5_Witness ==
    /\ Planned
    /\ \E pr \in FilePairs(1) :
          LET d == pr[1].node
              l == pr[2].node
          IN /\ ~d.is_google_doc /\ BothHashed(d, l) /\ d.md5 = l.md5
             /\ d.size # l.size
             /\ Abs(d.modifiedTime - l.modifiedTime) > MtimeTolerance

C7_PolicyAndNewerSide ==
    Planned => \A i \in Pairs : \A pr \in FilePairs(i) :
        LET d == pr[1].node
            l == pr[2].node
            OnlyDownload == InToDownload(d) /\ ~InToUpload(l) /\ ~InConflicts(d, l)
            OnlyUpload == InToUpload(l) /\ ~InToDownload(d) /\ ~InConflicts(d, l)
            OnlyConflict == InConflicts(d, l) /\ ~InToDownload(d) /\ ~InToUpload(l)
        IN (~d.is_google_doc /\ AreFilesDifferent(d, l)) =>
             /\ (d.modifiedTime > l.modifiedTime /\ Preference("drive") = "drive")
                   => OnlyDownload
             /\ (d.modifiedTime > l.modifiedTime /\ Preference("drive") = "local")
                   => OnlyConflict
             /\ (l.modifiedTime > d.modifiedTime /\ Preference("drive") = "local")
                   => OnlyUpload
             /\ (l.modifiedTime > d.modifiedTime /\ Preference("drive") = "drive")
                   => OnlyConflict

\* A differing pair whose remote file is newer went, under policy local,
\* to conflicts.
C7_Witness ==
    /\ Planned
    /\ conflict_resolution = "local"
    /\ \E pr \in FilePairs(1) :
          /\ ~pr[1].node.is_google_doc
          /\ AreFilesDifferent(pr[1].node, pr[2].node)
          /\ pr[1].node.modifiedTime > pr[2].node.modifiedTime
          /\ InConflicts(pr[1].node, pr[2].node)

\* Events of the log, by position.
Events == 1..Len(log)

FolderPhases == {"create_missing_folders", "create_remote_folders"}

\* The phases of the direction a folder phase belongs to that transfer
\* files or resolve conflicts.
TransfersOf(phase) ==
    IF phase = "create_missing_folders"
    THEN {"download_files", "resolve_conflicts_from_drive"}
    ELSE {"upload_files", "resolve_conflicts_from_local", "update_conflicts"}

\* The captured folders of the plan, at any depth, by their paths.
CapturedPaths(folders) ==
    UNION {{folders[k].path} \cup {n.node.path : n \in FolderNodes(folders[k], <<>>)}
           : k \in 1..Len(folders)}

\* C8: in each direction of a run every attempt to create a captured
\* folder comes before every download, upload and conflict resolution of
\* that direction, and a transfer into a captured folder comes after the
\* attempt to create that folder.
C8_FoldersBeforeTransfers ==
    /\ \A i, j \in Events :
          (log[i].phase \in FolderPhases /\ log[j].phase \in TransfersOf(log[i].phase))
             => i < j
    /\ \A j \in Events :
          \A path \in CapturedPaths(sync_plan.drive_only_folders)
                         \cup CapturedPaths(sync_plan.local_only_folders) :
             (log[j].phase \notin FolderPhases /\ IsBelow(log[j].path, path))
                => \E i \in 1..(j - 1) :
                      log[i].phase \in FolderPhases /\ log[i].path = path

\* A run in both directions created a folder on each side and then, in
\* each direction after its folders, moved a file.
C8_Witness ==
    /\ pc = "done"
    /\ direction = "both"
    /\ \E i, j \in Events :
          /\ log[i].phase = "create_missing_folders"
          /\ log[j].phase \in {"download_files", "resolve_conflicts_from_drive"}
          /\ log[j].result = "ok"
    /\ \E i, j \in Events :
          /\ log[i].phase = "create_remote_folders"
          /\ log[j].phase \in {"upload_files", "resolve_conflicts_from_local"}
          /\ log[j].result = "ok"

\* The path an item of a phase's list is logged under.
ItemPath(phase, item) ==
    IF phase \in FolderPhases THEN item.path
    ELSE IF phase = "update_conflicts" THEN item[1].full_path
    ELSE item.full_path

FailureResults == {"fail", "raise"}

\* C9: no failure of an item ends the run: a run under way can always go
\* on until execute_plan returns, and when it has returned every item of
\* the list of every phase of the direction has been attempted, the items
\* and the phases after a failed item included.
AllAttempted ==
    \A phase \in Range(Phases(direction)) :
       \A k \in 1..Len(ItemsOf(phase)) :
          \E e \in Events :
             /\ log[e].phase = phase
             /\ log[e].path = ItemPath(phase, ItemsOf(phase)[k])

Running == pc \notin {"start", "planned", "reported", "done"}

\* The rounds a list still takes at most: a folder counts with the folders
\* below it.
RECURSIVE FolderWeight(_)
FolderWeight(folders) ==
    IF folders = <<>> THEN 0
    ELSE 1 + FolderWeight(ChildrenOf(Head(folders))) + FolderWeight(Tail(folders))

Weight(phase, items) ==
    IF phase \in FolderPhases THEN FolderWeight(items) ELSE Len(items)

\* The rounds the run still takes at most, the moves between phases
\* included: it is 0 when execute_plan has returned.
RoundsLeft ==
    IF ~Running THEN 0
    ELSE LET phases == Phases(direction)
             k == PhaseIndex(direction, pc)
         IN Weight(pc, todo) + 1
            + Len(phases) - k
            + (LET Later(n) == Weight(phases[n], ItemsOf(phases[n]))
                   RECURSIVE Sum(_)
                   Sum(n) == IF n > Len(phases) THEN 0 ELSE Later(n) + Sum(n + 1)
               IN Sum(k + 1))

\* C9: no failure of an item ends the run. A run under way always has a
\* next step, each step brings the return of execute_plan nearer, and when
\* it has returned every item of the list of every phase of the direction
\* has been attempted, the items and the phases after a failed item
\* included.
C9_FailuresDoNotAbort ==
    /\ [](Running => /\ pc \in Range(Phases(direction))
                      /\ RoundsLeft > 0)
    /\ [][Running => RoundsLeft' < RoundsLeft]_vars
    /\ [](pc = "done" => AllAttempted)

\* A run has returned in which an item failed, a later item of the same
\* list was attempted and a later phase handled an item.
C9_Witness ==
    /\ pc = "done"
    /\ \E i, j, k \in Events :
          /\ log[i].result \in FailureResults
          /\ i < j /\ log[j].phase = log[i].phase
          /\ j < k /\ log[k].phase # log[i].phase

\* The items of the run whose processing failed: a store call failed or
\* raised, or no path could be mapped.
FailedItems == {e \in Events : log[e].result \in FailureResults \cup {"unmapped"}}

\* C10: when execute_plan has returned, the errors of its statistics are
\* the number of items whose processing failed in the run.
C10_ErrorsCountFailedItems ==
    pc = "done" => stats.errors = Cardinality(FailedItems)

\* The step has skipped an item because no path could be mapped for it.
SkippedUnmapped ==
    /\ Len(log') = Len(log) + 1
    /\ log'[Len(log')].result = "unmapped"

\* C11: an item whose path the executor cannot map is skipped and adds one
\* to the errors of the run, be it a local folder, a remote folder, a
\* download or an upload.
C11_UnmappedItemCounted ==
    [][SkippedUnmapped => stats'.errors = stats.errors + 1]_vars

\* The files of the name of a remote file that its Drive folder holds: the
\* file itself and every upload of that name into the folder.
RemoteCopies(drive_file) ==
    1 + Cardinality({k \in 1..Len(remote_files) :
                        /\ remote_files[k].parent = drive_file.parent_path
                        /\ remote_files[k].name = drive_file.name})

\* C12: when the policy is local and a run in direction up has resolved
\* the conflicts, the Drive folder of each conflicting remote file holds
\* one file of that name: the file was updated and no second one created.
C12_ConflictUpdatedInPlace ==
    (pc = "done" /\ direction = "up" /\ conflict_resolution = "local") =>
       \A k \in 1..Len(sync_plan.conflicts) :
          RemoteCopies(sync_plan.conflicts[k][1]) = 1

\* The run has moved the file of a conflict in the phase.
Transferred(phase, full_path) ==
    \E e \in Events :
       log[e].phase = phase /\ log[e].path = full_path /\ log[e].result = "ok"

\* C13: whatever conflict_resolution is, drive, local or not set, a run
\* moves a conflict pair toward one side only: never both down and up, and
\* a run in direction both without a failure moves it in one direction.
C13_ConflictOneWay ==
    \A k \in 1..Len(sync_plan.conflicts) :
       LET down == Transferred("resolve_conflicts_from_drive",
                               sync_plan.conflicts[k][1].full_path)
           up == Transferred("resolve_conflicts_from_local",
                             sync_plan.conflicts[k][2].full_path)
       IN /\ ~(down /\ up)
          /\ (pc = "done" /\ direction = "both" /\ Failures = 0) => (down \/ up)

\* The phases of the two halves of a run, whatever the policy.
DownPhaseNames ==
    {"create_missing_folders", "download_files", "resolve_conflicts_from_drive"}

UpPhaseNames ==
    {"create_remote_folders", "upload_files", "resolve_conflicts_from_local",
     "update_conflicts"}

\* C14: in direction both every phase of the down half has run over its
\* whole list before the first step of the up half, and from the moment
\* the plan is made no step changes it: both halves read the same plan.
C14_DownHalfThenUpHalfOnOnePlan ==
    /\ [](\A i, j \in Events :
             (log[i].phase \in DownPhaseNames /\ log[j].phase \in UpPhaseNames)
                => i < j)
    /\ []((direction = "both" /\ pc \in UpPhaseNames) =>
             \A phase \in Range(DownPhases) :
                \A k \in 1..Len(ItemsOf(phase)) :
                   \E e \in Events :
                      /\ log[e].phase = phase
                      /\ log[e].path = ItemPath(phase, ItemsOf(phase)[k]))
    /\ [][pc # "start" => sync_plan' = sync_plan]_vars

\* A run in both directions has downloaded a file and, later, uploaded one.
C14_Witness ==
    /\ pc = "done"
    /\ direction = "both"
    /\ \E i, j \in Events :
          /\ i < j
          /\ log[i].op = "download" /\ log[i].result = "ok"
          /\ log[j].op = "upload" /\ log[j].result = "ok"

\* The downloads of the to_download list, by position in the log.
PlannedDownloads == {e \in Events : log[e].phase = "download_files"}

\* C15: after a run in direction down in which every item of to_download
\* was downloaded, the plan of a second scan and diff has none of those
\* files in to_download.
C15_DownloadedNotPlannedAgain ==
    (/\ pc = "rescanned"
     /\ direction = "down"
     /\ \A e \in PlannedDownloads : log[e].result = "ok")
    => \A e \in PlannedDownloads :
          \A k \in 1..Len(sync_plan.to_download) :
             sync_plan.to_download[k].full_path # log[e].path

\* C16: a dry run has no effect: with dry_run set no step of the program
\* creates a local folder or file, changes the Drive or calls a store.
C16_DryRunChangesNothing ==
    [][dry_run => UNCHANGED <<local_fs_dirs, local_fs_files, local_store,
                              remote_folders, remote_files, drive_store,
                              stats, log>>]_vars

\* A dry run has shown a plan with work in it and returned.
C16_Witness ==
    /\ dry_run
    /\ pc = "reported"
    /\ sync_plan.to_download # <<>>
    /\ sync_plan.local_only_folders # <<>>

\* C17: when no root of the table is a prefix of the path, the mapping
\* from a remote path to a local one returns no path, and so does the
\* mapping from a local path to a remote one.
C17_NoPrefixNoPath ==
    /\ (/\ mapped.fn = "local_for_drive"
        /\ \A i \in 1..NumPairs :
              ~IsDriveRoot(sync_folders[i][1])
              /\ ~StartsWith(mapped.arg, sync_folders[i][1]))
       => mapped.result = <<>>
    /\ (/\ mapped.fn = "drive_for_local"
        /\ \A i \in 1..NumPairs : ~StartsWith(mapped.arg, LocalBaseName(i)))
       => mapped.result = <<>>

\* The root is a prefix of the remote path at a boundary of its
\* components; 'root' and '/' are above every path that has no slash in
\* front.
RootAbove(root, path) ==
    IF IsDriveRoot(root) THEN ~StartsWith(path, <<Slash>>)
    ELSE path = root \/ StartsWith(path, root \o <<Slash>>)

\* The path taken relative to a root above it.
RelativeTo(root, path) ==
    IF IsDriveRoot(root) THEN path
    ELSE LStripSlash(DropFirst(path, Len(root)))

\* C18: when a root of the table is above a remote path with folders in it, the mapping
\* returns the local root of such a pair joined with the path relative to
\* its remote root ('D' is above 'D/x', not above 'DA/x'); a pair whose
\* root is not above the path is not chosen.
C18_MappedThroughRootAbove ==
    LET above == {i \in 1..NumPairs : RootAbove(sync_folders[i][1], mapped.arg)}
    IN (mapped.fn = "local_for_drive" /\ HasSlash(mapped.arg) /\ above # {}) =>
          \E i \in above :
             mapped.result =
                OsPathNormpath(OsPathJoin(sync_folders[i][2],
                                          RelativeTo(sync_folders[i][1], mapped.arg)))

\* C19: a remote path without a slash is mapped into the local root of the
\* pair whose remote root is 'root' or '/', wherever that pair is in the
\* table, and into the local root of the first pair only when the table
\* has no such pair.
C19_TopLevelPairWins ==
    LET top == {i \in 1..NumPairs : IsDriveRoot(sync_folders[i][1])}
        chosen == IF top = {} THEN {1} ELSE top
    IN (mapped.fn = "local_for_drive" /\ ~HasSlash(mapped.arg) /\ NumPairs > 0) =>
          \E i \in chosen :
             mapped.result = OsPathNormpath(OsPathJoin(sync_folders[i][2], mapped.arg))

\* What compare_structures makes of the two trees of the state.
PlannerOutput ==
    CompareStructures(ScanDriveStructure(drive_store[1]),
                      ScanLocalStructure(ForeignLocal, local_store[1], 0))

\* The full paths of the Drive files whose MIME type is a Google one.
GoogleDocPaths ==
    {n.node.full_path :
        n \in {m \in FileNodes(ScanDriveStructure(drive_store[1]), <<>>) :
                  m.node.mimeType \in google_mime_types}}

\* The paths download_file has been called for.
DownloadCalls ==
    {log[k].path : k \in {j \in 1..Len(log) :
                            /\ log[j].op = "download"
                            /\ log[j].result \in {"ok", "fail", "raise"}}}

\* C20: compare_structures puts no Google document into to_download nor
\* into a conflicts pair, with or without a local file of its name, and
\* the executor calls download_file for no Google document, also when the
\* list it was given holds one.
C20_GoogleDocNeverDownloaded ==
    /\ \A k \in 1..Len(PlannerOutput.to_download) :
          PlannerOutput.to_download[k].mimeType \notin google_mime_types
    /\ \A k \in 1..Len(PlannerOutput.conflicts) :
          PlannerOutput.conflicts[k][1].mimeType \notin google_mime_types
    /\ DownloadCalls \cap GoogleDocPaths = {}

\* A run has ended whose download list held a Google document that has a
\* local file of its name, and the executor passed it over.
C20_Witness ==
    /\ pc = "done"
    /\ \E k \in 1..Len(log) :
          /\ log[k].op = "download"
          /\ log[k].result = "google_doc"
          /\ log[k].path \in GoogleDocPaths
          /\ \E f \in Range(FilesOf(local_store[1])) : f.name = Basename(log[k].path)

\* How many of to_download, to_upload and conflicts hold the pair.
ListsHolding(d, l) ==
    (IF InToDownload(d) THEN 1 ELSE 0) + (IF InToUpload(l) THEN 1 ELSE 0)
    + (IF InConflicts(d, l) THEN 1 ELSE 0)

\* C28: a same-named pair whose two hashes are present and unequal is
\* listed, also when the sizes are equal and the times within the
\* tolerance; the remote file strictly newer and the policy drive, it is in
\* to_download once and in no other list.  With a hash on one side only,
\* the pair is listed exactly when the sizes differ or the times are more
\* than the tolerance apart.
C28_UnequalHashesDiffer ==
    Planned => \A i \in Pairs : \A pr \in FilePairs(i) :
        LET d == pr[1].node
            l == pr[2].node
            apart == Abs(d.modifiedTime - l.modifiedTime)
        IN ~d.is_google_doc =>
             /\ (BothHashed(d, l) /\ d.md5 # l.md5) =>
                   /\ Listed(d, l)
                   /\ (d.modifiedTime > l.modifiedTime /\ Preference("drive") = "drive")
                         => /\ Occurrences(sync_plan.to_download, d.full_path) = 1
                            /\ ~InToUpload(l) /\ ~InConflicts(d, l)
             /\ ((d.md5 = NoHash) # (l.md5 = NoHash)) =>
                   (Listed(d, l) <=> (d.size # l.size \/ apart > MtimeTolerance))

\* A pair of unequal hashes, equal sizes and times within the tolerance,
\* the remote file the newer one, is in to_download.
C28_Witness ==
    /\ Planned
    /\ \E pr \in FilePairs(1) :
          LET d == pr[1].node
              l == pr[2].node
          IN /\ ~d.is_google_doc /\ BothHashed(d, l) /\ d.md5 # l.md5
             /\ d.size = l.size
             /\ d.modifiedTime > l.modifiedTime
             /\ d.modifiedTime - l.modifiedTime <= MtimeTolerance
             /\ InToDownload(d)

\* C29: a same-named pair judged different whose two times are equal is
\* never in to_download; it is in to_upload under policy local and in
\* conflicts otherwise.  Every pair judged different is in exactly one of
\* the three lists.
C29_EqualTimesNoDownload ==
    Planned => \A i \in Pairs : \A pr \in FilePairs(i) :
        LET d == pr[1].node
            l == pr[2].node
        IN (~d.is_google_doc /\ AreFilesDifferent(d, l)) =>
             /\ ListsHolding(d, l) = 1
             /\ FileListings(i, pr[1].rel) = 1
             /\ d.modifiedTime = l.modifiedTime =>
                   /\ ~InToDownload(d)
                   /\ IF Preference("drive") = "local"
                      THEN InToUpload(l) ELSE InConflicts(d, l)

\* A differing pair of equal times has been diffed: under policy local it
\* is in to_upload, under policy drive in conflicts.
C29_Witness ==
    /\ Planned
    /\ \E pr \in FilePairs(1) :
          LET d == pr[1].node
              l == pr[2].node
          IN /\ ~d.is_google_doc /\ AreFilesDifferent(d, l)
             /\ d.modifiedTime = l.modifiedTime
             /\ \/ conflict_resolution = "drive" /\ InConflicts(d, l)
                \/ conflict_resolution = "local" /\ InToUpload(l)

\* The diff of root pair i as compare_structures returns it; nothing for a
\* pair whose Drive root was not found.
PairDiff(i) ==
    IF drive_structure[i] = None THEN EmptyPlan
    ELSE CompareStructures(drive_structure[i], local_structure[i])

\* One collection of the pairs' diffs from pair i on, in the table's order.
RECURSIVE Concatenated(_, _)
Concatenated(i, key) ==
    IF i > NumPairs THEN <<>> ELSE PairDiff(i)[key] \o Concatenated(i + 1, key)

\* Where the downloads of pair i begin in the overall list.
DownloadsBefore(i) ==
    Len(sync_plan.to_download) - Len(Concatenated(i, "to_download"))

FullPaths(items) == [k \in 1..Len(items) |-> items[k].full_path]

\* C21: the overall plan is, collection by collection, the pairs' plans one
\* after the other in the order of the table, and every download of pair i
\* carries a local_path that is the local root of pair i followed by the
\* file's path below the Drive root of pair i.
C21_PlansConcatenatedAndAnnotated ==
    Planned =>
       /\ \A key \in {"conflicts", "drive_only_folders", "local_only_folders"} :
             sync_plan[key] = Concatenated(1, key)
       /\ \A key \in {"to_download", "to_upload"} :
             FullPaths(sync_plan[key]) = FullPaths(Concatenated(1, key))
       /\ \A i \in Pairs : \A k \in 1..Len(PairDiff(i).to_download) :
             LET item == sync_plan.to_download[DownloadsBefore(i) + k]
             IN /\ item.full_path = PairDiff(i).to_download[k].full_path
                /\ \E n \in DriveFileNodes(i) :
                      /\ n.node.full_path = item.full_path
                      /\ item.local_path = sync_folders[i][2] \o n.rel
                /\ StartsWith(item.local_path, sync_folders[i][2] \o <<Slash>>)

\* Two pairs have been diffed and each has a file to download; the second
\* pair's file goes below the second local root.
C21_Witness ==
    /\ Planned
    /\ NumPairs = 2
    /\ PairDiff(1).to_download # <<>>
    /\ PairDiff(2).to_download # <<>>
    /\ StartsWith(sync_plan.to_download[Len(sync_plan.to_download)].local_path,
                  sync_folders[2][2] \o <<Slash>>)

\* The plan holds the item of the collection under the path.
PlanHolds(key, path) ==
    \E m \in 1..Len(sync_plan[key]) :
       (IF key \in {"to_download", "to_upload"}
        THEN sync_plan[key][m].full_path ELSE sync_plan[key][m].path) = path

\* C30: a pair whose Drive root is not found gives the plan nothing, none
\* of its local files is listed for upload, and the other pairs are diffed
\* all the same; a pair whose local root does not exist has every file
\* directly in its Drive root that is no Google document in to_download,
\* bound for its local root, and every folder directly in its Drive root
\* in drive_only_folders.
C30_MissingRoots ==
    Planned => \A i \in Pairs :
       /\ drive_store[i] = None =>
             /\ \A m \in 1..Len(sync_plan.to_upload) :
                   sync_plan.to_upload[m].drive_parent # sync_folders[i][1]
             /\ \A key \in DOMAIN sync_plan :
                   Len(sync_plan[key]) = Len(Concatenated(1, key))
       /\ drive_store[i] # None =>
             /\ \A k \in 1..Len(PairDiff(i).to_upload) :
                   \E m \in 1..Len(sync_plan.to_upload) :
                      /\ sync_plan.to_upload[m].full_path = PairDiff(i).to_upload[k].full_path
                      /\ sync_plan.to_upload[m].drive_parent = sync_folders[i][1]
             /\ \A k \in 1..Len(PairDiff(i).to_download) :
                   \E m \in 1..Len(sync_plan.to_download) :
                      /\ sync_plan.to_download[m].full_path = PairDiff(i).to_download[k].full_path
                      /\ StartsWith(sync_plan.to_download[m].local_path,
                                    sync_folders[i][2] \o <<Slash>>)
       /\ (drive_store[i] # None /\ local_store[i] = None) =>
             /\ \A f \in Range(drive_store[i].files) :
                   f.mimeType \notin google_mime_types =>
                      \E m \in 1..Len(sync_plan.to_download) :
                         /\ sync_plan.to_download[m].full_path
                               = drive_store[i].name \o <<Slash>> \o f.name
                         /\ sync_plan.to_download[m].local_path
                               = sync_folders[i][2] \o <<Slash>> \o f.name
             /\ \A c \in Range(drive_store[i].children) :
                   PlanHolds("drive_only_folders", drive_store[i].name \o <<Slash>> \o c.name)

\* The first pair's Drive root was not found while its local directory
\* holds a file; the second pair's local root does not exist and its Drive
\* root holds a file, which the plan lists.
C30_Witness ==
    /\ Planned
    /\ NumPairs = 2
    /\ drive_store[1] = None
    /\ local_store[1] # None
    /\ local_store[1].files # <<>>
    /\ drive_store[2] # None
    /\ local_store[2] = None
    /\ Len(sync_plan.to_download) = 1
    /\ sync_plan.to_upload = <<>>

\* The second pair's local root does not exist and its Drive root holds a
\* folder, which the plan captures.
C30_WitnessFolder ==
    /\ Planned
    /\ NumPairs = 2
    /\ local_store[2] = None
    /\ drive_store[2] # None
    /\ drive_store[2].children # <<>>
    /\ sync_plan.drive_only_folders # <<>>

\* The folders of pair i on the Drive side that the plan captured, or that
\* are below a captured one; likewise on the local side.
CapturedDriveFolders(i) ==
    {n \in DriveFolderNodes(i) :
        \E top \in DriveFolderNodes(i) :
           /\ PlanHolds("drive_only_folders", DriveCanonical(i, top.rel))
           /\ (n.rel = top.rel \/ IsBelow(n.rel, top.rel))}

CapturedLocalFolders(i) ==
    {n \in LocalFolderNodes(i) :
        \E top \in LocalFolderNodes(i) :
           /\ PlanHolds("local_only_folders", LocalCanonical(i, top.rel))
           /\ (n.rel = top.rel \/ IsBelow(n.rel, top.rel))}

\* C24: after a run without errors, every folder of a captured subtree
\* exists on the other side at its own path below the other root of its
\* pair: locally after direction down or both, on the Drive after direction
\* up or both.
C24_CapturedFoldersCreated ==
    (pc = "done" /\ stats.errors = 0) => \A i \in Pairs :
       /\ direction \in {"down", "both"} =>
             \A n \in CapturedDriveFolders(i) :
                sync_folders[i][2] \o n.rel \in local_fs_dirs
       /\ direction \in {"up", "both"} =>
             \A n \in CapturedLocalFolders(i) :
                sync_folders[i][1] \o n.rel \in remote_folders

\* The Drive folder an upload of the plan belongs in: the Drive root its
\* pair was annotated with, then the file's parent below that pair's local
\* root.
UploadFolder(item) ==
    LET i == CHOOSE j \in Pairs : sync_folders[j][1] = item.drive_parent
    IN StripSlashes(sync_folders[i][1]
                    \o DropFirst(item.parent_path, Len(Basename(sync_folders[i][2]))))

\* C25: every file of to_upload that has been uploaded is in the Drive
\* folder made of its own pair's Drive root and its parent path below its
\* own pair's local root, never below another pair's Drive root.
C25_UploadedUnderOwnRoot ==
    \A e \in Range(remote_files) : \A k \in 1..Len(sync_plan.to_upload) :
       sync_plan.to_upload[k].full_path = e.from
          => e.parent = UploadFolder(sync_plan.to_upload[k])

\* The operations of the run that change the Drive, and those that change
\* the local side.
RemoteOps == {"create_folder", "upload", "update"}
LocalOps == {"mkdir", "download"}

OpsDone == {log[k].op : k \in 1..Len(log)}

\* C26: a run in direction down calls nothing that changes the Drive: no
\* folder creation, upload or update, the Drive as it was, the upload
\* counters and created_remote_folders 0; a run in direction up downloads
\* nothing and creates no local folder, the local side as it was, the
\* download counters and created_folders 0.
C26_OneDirectionOneSide ==
    /\ direction = "down" =>
          /\ OpsDone \cap RemoteOps = {}
          /\ remote_folders = UNION {InitialRemoteFolders(i) : i \in Pairs}
          /\ remote_files = <<>>
          /\ stats.uploaded_files = 0 /\ stats.uploaded_bytes = 0
          /\ stats.created_remote_folders = 0
    /\ direction = "up" =>
          /\ OpsDone \cap LocalOps = {}
          /\ local_fs_dirs = UNION {InitialLocalDirs(i) : i \in Pairs}
          /\ DOMAIN local_fs_files = UNION {DOMAIN InitialLocalFiles(i) : i \in Pairs}
          /\ \A i \in Pairs : \A path \in DOMAIN InitialLocalFiles(i) :
                local_fs_files[path] = InitialLocalFiles(i)[path]
          /\ stats.downloaded_files = 0 /\ stats.downloaded_bytes = 0
          /\ stats.created_folders = 0

\* A run in direction down has ended on a plan that lists a file to upload
\* and a folder to create on the Drive.
C26_Witness ==
    /\ pc = "done"
    /\ direction = "down"
    /\ sync_plan.to_upload # <<>>
    /\ sync_plan.local_only_folders # <<>>

\* A run in direction up has ended on a plan that lists a file to download
\* and a folder to create locally.
C26_WitnessUp ==
    /\ pc = "done"
    /\ direction = "up"
    /\ sync_plan.to_download # <<>>
    /\ sync_plan.drive_only_folders # <<>>
    /\ stats.uploaded_files + stats.created_remote_folders > 0

\* The files the plan holds for one side: the downloads and the Drive
\* files of the conflicts, the uploads and the local files of the conflicts.
PlanFiles(op) ==
    IF op = "download"
    THEN Range(sync_plan.to_download)
         \cup {sync_plan.conflicts[k][1] : k \in 1..Len(sync_plan.conflicts)}
    ELSE Range(sync_plan.to_upload)
         \cup {sync_plan.conflicts[k][2] : k \in 1..Len(sync_plan.conflicts)}

SizeAt(op, full_path) == (CHOOSE f \in PlanFiles(op) : f.full_path = full_path).size

\* The calls of the operation that succeeded, among the first k events, and
\* the bytes they moved.
Succeeded(op, k) == {j \in 1..k : log[j].op = op /\ log[j].result = "ok"}

RECURSIVE BytesMoved(_, _)
BytesMoved(op, k) ==
    IF k = 0 THEN 0
    ELSE BytesMoved(op, k - 1)
         + (IF k \in Succeeded(op, k) THEN SizeAt(op, log[k].path) ELSE 0)

\* C27: when execute_plan returns, downloaded_files and uploaded_files are
\* the numbers of download and upload calls that succeeded,
\* downloaded_bytes and uploaded_bytes the sums of the sizes of those
\* files, created_folders the number of local directories that exist now
\* and did not before, created_remote_folders the same of Drive folders.
C27_StatsMatchRun ==
    pc = "done" =>
       /\ stats.downloaded_files = Cardinality(Succeeded("download", Len(log)))
       /\ stats.downloaded_bytes = BytesMoved("download", Len(log))
       /\ stats.uploaded_files = Cardinality(Succeeded("upload", Len(log)))
       /\ stats.uploaded_bytes = BytesMoved("upload", Len(log))
       /\ stats.created_folders =
             Cardinality(local_fs_dirs \ UNION {InitialLocalDirs(i) : i \in Pairs})
       /\ stats.created_remote_folders =
             Cardinality(remote_folders \ UNION {InitialRemoteFolders(i) : i \in Pairs})

\* A Drive folder as its listing comes out when the folders of unreadable
\* give nothing.
RECURSIVE PrunedDrive(_)
PrunedDrive(folder) ==
    IF folder.id \in unreadable
    THEN [folder EXCEPT !.files = <<>>, !.children = <<>>]
    ELSE [folder EXCEPT !.children = [k \in 1..Len(@) |-> PrunedDrive(@[k])]]

RECURSIVE PrunedLocal(_, _)
PrunedLocal(dir, path) ==
    IF path \in unreadable
    THEN [dir EXCEPT !.files = <<>>, !.children = <<>>]
    ELSE [dir EXCEPT !.children =
             [k \in 1..Len(@) |-> PrunedLocal(@[k], SlashJoin(path, @[k].name))]]

\* The paths of the files and folders of a tree, below its root.
RelsOf(tree) ==
    {n.rel : n \in FileNodes(tree, <<>>)} \cup {n.rel : n \in FolderNodes(tree, <<>>)}

\* C22: when the listing of one folder below a root fails during a scan, create_sync_plan
\* still returns a plan, made of trees in which that folder is there without
\* content and every other folder and file is there: on the Drive side and
\* on the local side.
C22_ScanSurvivesFailedFolder ==
    (/\ pc # "start"
     /\ exclusions = {}
     /\ unreadable \cap {drive_store[1].id, LocalRootName} = {}) =>
       /\ pc \in {"planned", "reported"}
       /\ RelsOf(drive_structure[1]) = RelsOf(PrunedDrive(drive_store[1]))
       /\ RelsOf(local_structure[1]) = RelsOf(PrunedLocal(local_store[1], LocalRootName))

\* The names of the files and folders of a tree, below its root.
NamesIn(tree) ==
    {n.node.name : n \in FileNodes(tree, <<>>) \cup FolderNodes(tree, <<>>)}

\* The names on the paths of the plan's items, below the roots.
PlanNames ==
    LET paths == {sync_plan.to_download[k].full_path : k \in 1..Len(sync_plan.to_download)}
                 \cup {sync_plan.to_upload[k].full_path : k \in 1..Len(sync_plan.to_upload)}
                 \cup ConflictDrivePaths \cup ConflictLocalPaths
                 \cup {sync_plan.drive_only_folders[k].path :
                          k \in 1..Len(sync_plan.drive_only_folders)}
                 \cup {sync_plan.local_only_folders[k].path :
                          k \in 1..Len(sync_plan.local_only_folders)}
    IN UNION {Range(Tail(SplitSlash(path))) : path \in paths}

\* C23: no file or folder whose name matches an exclusion pattern is in the
\* tree of the Drive scan or of the local scan, nor anything below such a
\* folder, and no such name is on the path of any item of the plan.
C23_ExcludedNowhere ==
    (pc \in {"planned", "reported"} /\ unreadable = {}) =>
       /\ \A name \in NamesIn(drive_structure[1]) : ~ShouldExclude(name)
       /\ \A name \in NamesIn(local_structure[1]) : ~ShouldExclude(name)
       /\ \A name \in PlanNames : ~ShouldExclude(name)
       /\ \A n \in FileNodes(drive_structure[1], <<>>)
                \cup FolderNodes(drive_structure[1], <<>>)
                \cup FileNodes(local_structure[1], <<>>)
                \cup FolderNodes(local_structure[1], <<>>) :
             \A name \in Range(SplitSlash(LStripSlash(n.rel))) : ~ShouldExclude(name)

====
